---- MODULE Spec2Model ----
(***************************************************************************)
(* Recipe text parsing and unit conversion of the measuring-spoon app:     *)
(* lib/units.ts (unit table, lookup, conversion, number formatting),       *)
(* lib/parser.ts (ingredient lines, recipe text, instructions),            *)
(* lib/conversion.ts (single measurements), lib/state.ts (the recipe in    *)
(* the URL hash), the handlers of pages/Index.tsx that change the recipe   *)
(* and the conversion mode, and hooks/useLongPress.ts.                     *)
(*                                                                         *)
(* Representation.  A JavaScript string is a sequence of one-character     *)
(* strings.  A JavaScript number is an extended rational <<n, d>> in       *)
(* lowest terms with d >= 0: <<n, d>> with d > 0 is n/d, <<1, 0>> is       *)
(* Infinity, <<-1, 0>> is -Infinity and <<0, 0>> is NaN (binary rounding   *)
(* of doubles is not modelled).  A nullable value is <<>> for null and     *)
(* <<v>> for the value v.  A character outside ASCII is written as a name  *)
(* in braces: "{1/2}" is the one character U+00BD, "{U+2610}" is U+2610.   *)
(***************************************************************************)
EXTENDS Integers, Sequences, FiniteSets, TLC

VARIABLES
    fn,         \* the exported function being called
    input,      \* its argument(s)
    output,     \* its return value, once pc = "done"
    pc,         \* "ready" before the call, "done" after it
    shape,      \* how the input text was put together (a record; see Shapes)
    clock,      \* Date.now()
    idCounter,  \* parser.ts: let idCounter = 0 (module-level)
    issued,     \* the identifiers generateId has returned, in order
    parse,      \* the locals of the parseRecipeText call in progress
    app,        \* the state of the Index page (pages/Index.tsx)
    hook        \* the state of one useLongPress hook (hooks/useLongPress.ts)

vars == <<fn, input, output, pc, shape, clock, idCounter, issued, parse, app, hook>>

NULL == <<>>
Some(v) == <<v>>

(***************************************************************************)
(* Characters and strings                                                  *)
(***************************************************************************)
Digits == {"0", "1", "2", "3", "4", "5", "6", "7", "8", "9"}
LowerLetters ==
    {"a", "b", "c", "d", "e", "f", "g", "h", "i", "j", "k", "l", "m",
     "n", "o", "p", "q", "r", "s", "t", "u", "v", "w", "x", "y", "z"}
UpperLetters ==
    {"A", "B", "C", "D", "E", "F", "G", "H", "I", "J", "K", "L", "M",
     "N", "O", "P", "Q", "R", "S", "T", "U", "V", "W", "X", "Y", "Z"}
\* \s of a JavaScript regular expression, as far as the inputs go
Whitespace == {" ", "\t", "\n", "\r"}
\* the line terminators: where ^ matches under the m flag, what . skips
LineTerminators == {"\n", "\r"}
\* the vulgar fraction glyphs U+215B, U+00BC, U+2153, U+215C, U+00BD, U+215D,
\* U+2154, U+00BE, U+215E of the quantity character class
Glyphs == {"{1/8}", "{1/4}", "{1/3}", "{3/8}", "{1/2}", "{5/8}", "{2/3}", "{3/4}", "{7/8}"}

IsSpace(c) == c \in Whitespace
IsDigit(c) == c \in Digits
\* [a-zA-Z.]
IsUnitChar(c) == c \in LowerLetters \cup UpperLetters \cup {"."}
\* [\d\s\/.] and the nine glyphs
IsQtyChar(c) == c \in Digits \cup Whitespace \cup Glyphs \cup {"/", "."}

LowerOf ==
    [c \in UpperLetters |->
        CASE c = "A" -> "a" [] c = "B" -> "b" [] c = "C" -> "c" [] c = "D" -> "d"
          [] c = "E" -> "e" [] c = "F" -> "f" [] c = "G" -> "g" [] c = "H" -> "h"
          [] c = "I" -> "i" [] c = "J" -> "j" [] c = "K" -> "k" [] c = "L" -> "l"
          [] c = "M" -> "m" [] c = "N" -> "n" [] c = "O" -> "o" [] c = "P" -> "p"
          [] c = "Q" -> "q" [] c = "R" -> "r" [] c = "S" -> "s" [] c = "T" -> "t"
          [] c = "U" -> "u" [] c = "V" -> "v" [] c = "W" -> "w" [] c = "X" -> "x"
          [] c = "Y" -> "y" [] c = "Z" -> "z"]

\* String.prototype.toLowerCase
toLowerCase(s) ==
    [i \in 1..Len(s) |-> IF s[i] \in UpperLetters THEN LowerOf[s[i]] ELSE s[i]]

\* s.slice(p): what follows the first p characters
Slice(s, p) == SubSeq(s, p + 1, Len(s))

\* length of the longest run of characters satisfying C that starts after
\* the first p characters of s (a greedy C* at offset p)
RunLen(s, p, C(_)) ==
    CHOOSE k \in 0..(Len(s) - p) :
        /\ \A i \in 1..k : C(s[p + i])
        /\ (k = Len(s) - p \/ ~C(s[p + k + 1]))

\* length of the longest run of characters satisfying C that ends s
RunLenBack(s, C(_)) ==
    CHOOSE k \in 0..Len(s) :
        /\ \A i \in 1..k : C(s[Len(s) - i + 1])
        /\ (k = Len(s) \/ ~C(s[Len(s) - k]))

\* String.prototype.trim
trim(s) ==
    LET a == RunLen(s, 0, IsSpace)
    IN  IF a = Len(s) THEN <<>>
        ELSE SubSeq(s, a + 1, Len(s) - RunLenBack(s, IsSpace))

\* whether t occurs in s right after the first p characters
StartsWithAt(s, p, t) ==
    /\ p + Len(t) <= Len(s)
    /\ \A i \in 1..Len(t) : s[p + i] = t[i]

\* Number.prototype.toString of a non-negative integer
RECURSIVE IntToText(_)
IntToText(n) ==
    LET d == CHOOSE c \in Digits : ToString(n % 10) = c
    IN  IF n < 10 THEN <<d>> ELSE Append(IntToText(n \div 10), d)

DigitVal(c) == CHOOSE v \in 0..9 : ToString(v) = c

\* value of a run of decimal digits
RECURSIVE DigitsVal(_)
DigitsVal(s) ==
    IF s = <<>> THEN 0
    ELSE 10 * DigitsVal(SubSeq(s, 1, Len(s) - 1)) + DigitVal(s[Len(s)])

RECURSIVE Pow10(_)
Pow10(k) == IF k = 0 THEN 1 ELSE 10 * Pow10(k - 1)

(***************************************************************************)
(* Numbers                                                                 *)
(***************************************************************************)
Abs(x) == IF x < 0 THEN -x ELSE x
Sign(x) == IF x < 0 THEN -1 ELSE IF x > 0 THEN 1 ELSE 0

RECURSIVE GCD(_, _)
GCD(a, b) == IF b = 0 THEN a ELSE GCD(b, a % b)

NaN == <<0, 0>>
Infinity == <<1, 0>>
IsNaN(x) == x = NaN
IsFinite(x) == x[2] > 0

\* the number n/d in lowest terms (d may be 0 or negative)
Norm(n, d) ==
    IF d = 0 THEN <<Sign(n), 0>>
    ELSE LET g == GCD(Abs(n), Abs(d))
         IN  <<Sign(d) * (n \div g), Abs(d) \div g>>

Num(k) == <<k, 1>>

\* a * b of two numbers, cancelling across before multiplying
NumMul(a, b) ==
    IF a[2] = 0 \/ b[2] = 0 THEN Norm(a[1] * b[1], 0)
    ELSE LET g1 == GCD(Abs(a[1]), b[2])
             g2 == GCD(Abs(b[1]), a[2])
         IN  Norm((a[1] \div g1) * (b[1] \div g2), (a[2] \div g2) * (b[2] \div g1))

\* a / b
NumDiv(a, b) ==
    IF IsNaN(a) \/ IsNaN(b) THEN NaN
    ELSE IF b[2] = 0 THEN (IF a[2] = 0 THEN NaN ELSE Num(0))
    ELSE IF b[1] = 0 THEN Norm(a[1], 0)
    ELSE NumMul(a, Norm(b[2], b[1]))

\* a + b
NumAdd(a, b) ==
    IF a[2] = 0 /\ b[2] = 0 THEN (IF a = b THEN a ELSE NaN)
    ELSE IF a[2] = 0 THEN a
    ELSE IF b[2] = 0 THEN b
    ELSE LET g == GCD(a[2], b[2])
         IN  Norm(a[1] * (b[2] \div g) + b[1] * (a[2] \div g), (a[2] \div g) * b[2])

NumSub(a, b) == NumAdd(a, <<-b[1], b[2]>>)
NumAbs(a) == <<Abs(a[1]), a[2]>>

\* a < b (false when either is NaN, as in JavaScript)
NumLess(a, b) ==
    IF IsNaN(a) \/ IsNaN(b) THEN FALSE
    ELSE IF a[2] = 0 /\ b[2] = 0 THEN a[1] < b[1]
    ELSE IF a[2] = 0 THEN a[1] < 0
    ELSE IF b[2] = 0 THEN b[1] > 0
    ELSE a[1] * b[2] < b[1] * a[2]

\* Math.floor of a finite non-negative number
NumFloor(a) == a[1] \div a[2]

(***************************************************************************)
(* lib/units.ts                                                            *)
(***************************************************************************)
\* Object.entries(UNITS) lists the keys in this order
UnitKeys ==
    <<"ml", "l", "tsp", "tbsp", "cup", "floz", "pint", "quart", "gallon",
      "g", "kg", "mg", "oz", "lb", "piece", "dozen">>

UNITS ==
  [
    ml |-> [name |-> <<"m","i","l","l","i","l","i","t","e","r">>,
        abbrev |-> << <<"m","l">>,
                     <<"m","i","l","l","i","l","i","t","e","r">>,
                     <<"m","i","l","l","i","l","i","t","e","r","s">>,
                     <<"m","i","l","l","i","l","i","t","r","e">>,
                     <<"m","i","l","l","i","l","i","t","r","e","s">> >>,
        category |-> "volume", toBase |-> <<1, 1>>],
    l |-> [name |-> <<"l","i","t","e","r">>,
        abbrev |-> << <<"l">>,
                     <<"l","i","t","e","r">>,
                     <<"l","i","t","e","r","s">>,
                     <<"l","i","t","r","e">>,
                     <<"l","i","t","r","e","s">> >>,
        category |-> "volume", toBase |-> <<1000, 1>>],
    tsp |-> [name |-> <<"t","e","a","s","p","o","o","n">>,
        abbrev |-> << <<"t","s","p">>,
                     <<"t","e","a","s","p","o","o","n">>,
                     <<"t","e","a","s","p","o","o","n","s">>,
                     <<"t">> >>,
        category |-> "volume", toBase |-> <<4929, 1000>>],
    tbsp |-> [name |-> <<"t","a","b","l","e","s","p","o","o","n">>,
        abbrev |-> << <<"t","b","s","p">>,
                     <<"t","a","b","l","e","s","p","o","o","n">>,
                     <<"t","a","b","l","e","s","p","o","o","n","s">>,
                     <<"T">>,
                     <<"T","b","s","p">> >>,
        category |-> "volume", toBase |-> <<14787, 1000>>],
    cup |-> [name |-> <<"c","u","p">>,
        abbrev |-> << <<"c","u","p">>,
                     <<"c","u","p","s">>,
                     <<"c">> >>,
        category |-> "volume", toBase |-> <<59147, 250>>],
    floz |-> [name |-> <<"o","z">>,
        abbrev |-> << <<"f","l"," ","o","z">>,
                     <<"f","l","u","i","d"," ","o","z">>,
                     <<"f","l","u","i","d"," ","o","u","n","c","e">>,
                     <<"f","l","u","i","d"," ","o","u","n","c","e","s">>,
                     <<"f","l","."," ","o","z",".">>,
                     <<"o","z">> >>,
        category |-> "volume", toBase |-> <<14787, 500>>],
    pint |-> [name |-> <<"p","i","n","t">>,
        abbrev |-> << <<"p","i","n","t">>,
                     <<"p","i","n","t","s">>,
                     <<"p","t">> >>,
        category |-> "volume", toBase |-> <<59147, 125>>],
    quart |-> [name |-> <<"q","u","a","r","t">>,
        abbrev |-> << <<"q","u","a","r","t">>,
                     <<"q","u","a","r","t","s">>,
                     <<"q","t">> >>,
        category |-> "volume", toBase |-> <<946353, 1000>>],
    gallon |-> [name |-> <<"g","a","l","l","o","n">>,
        abbrev |-> << <<"g","a","l","l","o","n">>,
                     <<"g","a","l","l","o","n","s">>,
                     <<"g","a","l">> >>,
        category |-> "volume", toBase |-> <<378541, 100>>],
    g |-> [name |-> <<"g","r","a","m">>,
        abbrev |-> << <<"g">>,
                     <<"g","r","a","m">>,
                     <<"g","r","a","m","s">>,
                     <<"g","r">> >>,
        category |-> "weight", toBase |-> <<1, 1>>],
    kg |-> [name |-> <<"k","i","l","o","g","r","a","m">>,
        abbrev |-> << <<"k","g">>,
                     <<"k","i","l","o","g","r","a","m">>,
                     <<"k","i","l","o","g","r","a","m","s">>,
                     <<"k","i","l","o">>,
                     <<"k","i","l","o","s">> >>,
        category |-> "weight", toBase |-> <<1000, 1>>],
    mg |-> [name |-> <<"m","i","l","l","i","g","r","a","m">>,
        abbrev |-> << <<"m","g">>,
                     <<"m","i","l","l","i","g","r","a","m">>,
                     <<"m","i","l","l","i","g","r","a","m","s">> >>,
        category |-> "weight", toBase |-> <<1, 1000>>],
    oz |-> [name |-> <<"o","u","n","c","e","s">>,
        abbrev |-> << <<"o","u","n","c","e">>,
                     <<"o","u","n","c","e","s">> >>,
        category |-> "weight", toBase |-> <<56699, 2000>>],
    lb |-> [name |-> <<"p","o","u","n","d">>,
        abbrev |-> << <<"l","b">>,
                     <<"l","b","s">>,
                     <<"p","o","u","n","d">>,
                     <<"p","o","u","n","d","s">> >>,
        category |-> "weight", toBase |-> <<56699, 125>>],
    piece |-> [name |-> <<"p","i","e","c","e">>,
        abbrev |-> << <<"p","i","e","c","e">>,
                     <<"p","i","e","c","e","s">>,
                     <<"p","c">>,
                     <<"p","c","s">> >>,
        category |-> "count", toBase |-> <<1, 1>>],
    dozen |-> [name |-> <<"d","o","z","e","n">>,
        abbrev |-> << <<"d","o","z","e","n">>,
                     <<"d","o","z">> >>,
        category |-> "count", toBase |-> <<12, 1>>]
  ]

\* UNITS is an object literal: besides its own keys, a property read finds
\* what it inherits from Object.prototype.  None of these has a category or
\* a toBase (both undefined; arithmetic on undefined gives NaN).
InheritedKeys == {"constructor", "toString", "valueOf", "hasOwnProperty", "__proto__"}
Inherited == [name |-> <<>>, abbrev |-> <<>>, category |-> "undefined", toBase |-> NaN]

\* UNITS[key], NULL standing for undefined
UnitsGet(key) ==
    IF key \in DOMAIN UNITS THEN Some(UNITS[key])
    ELSE IF key \in InheritedKeys THEN Some(Inherited)
    ELSE NULL

\* unit.abbrev.some(a => a.toLowerCase() === normalized)
AbbrevMatches(key, normalized) ==
    \E i \in 1..Len(UNITS[key].abbrev) : toLowerCase(UNITS[key].abbrev[i]) = normalized

\* a bug: compares the aliases as written, without lower-casing the text
findUnit_caseSensitive(text) ==
    LET normalized == trim(text)
        hits == {i \in 1..Len(UnitKeys) :
                    \E j \in 1..Len(UNITS[UnitKeys[i]].abbrev) :
                        UNITS[UnitKeys[i]].abbrev[j] = normalized}
    IN  IF hits = {} THEN NULL
        ELSE Some(UnitKeys[CHOOSE i \in hits : \A j \in hits : i <= j])

\* findUnit(text): the first unit, in table order, one of whose aliases
\* lower-cased equals the lower-cased, trimmed text
findUnit(text) ==
    LET normalized == trim(toLowerCase(text))
        hits == {i \in 1..Len(UnitKeys) : AbbrevMatches(UnitKeys[i], normalized)}
    IN  IF hits = {} THEN NULL
        ELSE Some(UnitKeys[CHOOSE i \in hits : \A j \in hits : i <= j])

\* a bug: multiplies by the target's factor instead of dividing by it
convertUnit_multiplies(value, fromUnit, toUnit) ==
    LET from == UnitsGet(fromUnit)
        to == UnitsGet(toUnit)
    IN  IF from = NULL \/ to = NULL THEN NULL
        ELSE IF from[1].category = to[1].category
                \/ (from[1].category = "volume" /\ to[1].category = "weight")
                \/ (from[1].category = "weight" /\ to[1].category = "volume")
             THEN Some(NumMul(NumMul(value, from[1].toBase), to[1].toBase))
        ELSE NULL

\* convertUnit(value, fromUnit, toUnit)
convertUnit(value, fromUnit, toUnit) ==
    LET from == UnitsGet(fromUnit)
        to == UnitsGet(toUnit)
    IN  IF from = NULL \/ to = NULL THEN NULL
        ELSE IF from[1].category = to[1].category
             THEN Some(NumDiv(NumMul(value, from[1].toBase), to[1].toBase))
        ELSE IF (from[1].category = "volume" /\ to[1].category = "weight")
                \/ (from[1].category = "weight" /\ to[1].category = "volume")
             THEN Some(NumDiv(NumMul(value, from[1].toBase), to[1].toBase))
        ELSE NULL

\* a bug: the volume/weight branch keeps to the unit's own category
getCompatibleUnits_sameCategory(unitKey) ==
    LET unit == UnitsGet(unitKey)
    IN  IF unit = NULL THEN <<>>
        ELSE SelectSeq(UnitKeys,
                LAMBDA key : UNITS[key].category = unit[1].category /\ key # unitKey)

\* getCompatibleUnits(unitKey)
getCompatibleUnits(unitKey) ==
    LET unit == UnitsGet(unitKey)
    IN  IF unit = NULL THEN <<>>
        ELSE IF unit[1].category = "volume" \/ unit[1].category = "weight"
             THEN SelectSeq(UnitKeys,
                    LAMBDA key : UNITS[key].category \in {"volume", "weight"}
                                 /\ key # unitKey)
        ELSE SelectSeq(UnitKeys,
                LAMBDA key : UNITS[key].category = unit[1].category /\ key # unitKey)

\* FRACTION_MAP: [value, glyph] in this order
FRACTION_MAP ==
    << <<<<1, 8>>, "{1/8}">>, <<<<1, 4>>, "{1/4}">>, <<<<333, 1000>>, "{1/3}">>,
       <<<<3, 8>>, "{3/8}">>, <<<<1, 2>>, "{1/2}">>, <<<<5, 8>>, "{5/8}">>,
       <<<<333, 500>>, "{2/3}">>, <<<<3, 4>>, "{3/4}">>, <<<<7, 8>>, "{7/8}">> >>

\* the loop of decimalToFraction: the first entry at the least distance
ClosestFraction(decimal) ==
    LET diff(i) == NumAbs(NumSub(decimal, FRACTION_MAP[i][1]))
    IN  CHOOSE i \in 1..Len(FRACTION_MAP) :
            \A j \in 1..Len(FRACTION_MAP) :
                /\ ~NumLess(diff(j), diff(i))
                /\ (j < i => NumLess(diff(i), diff(j)))

\* a bug: <= in place of <, so the last entry at the least distance wins
decimalToFraction_lastWins(value) ==
    LET whole == NumFloor(value)
        decimal == NumSub(value, Num(whole))
        diff(i) == NumAbs(NumSub(decimal, FRACTION_MAP[i][1]))
        closest == CHOOSE i \in 1..Len(FRACTION_MAP) :
                      \A j \in 1..Len(FRACTION_MAP) :
                          /\ ~NumLess(diff(j), diff(i))
                          /\ (j > i => NumLess(diff(i), diff(j)))
    IN  IF value = Num(0) THEN <<"0">>
        ELSE IF NumLess(decimal, <<1, 16>>) THEN IntToText(whole)
        ELSE IF whole = 0 THEN <<FRACTION_MAP[closest][2]>>
        ELSE Append(IntToText(whole), FRACTION_MAP[closest][2])

\* decimalToFraction(value), value finite and not negative
decimalToFraction(value) ==
    LET whole == NumFloor(value)
        decimal == NumSub(value, Num(whole))
        closest == FRACTION_MAP[ClosestFraction(decimal)]
    IN  IF value = Num(0) THEN <<"0">>
        ELSE IF NumLess(decimal, <<1, 16>>) THEN IntToText(whole)
        ELSE IF whole = 0 THEN <<closest[2]>>
        ELSE Append(IntToText(whole), closest[2])

\* a bug: rounds to the nearest tenth
toFixed2_tenths(value) ==
    LET n == (2 * 10 * value[1] + value[2]) \div (2 * value[2])
    IN  IntToText(n \div 10) \o <<".">> \o IntToText(n % 10) \o <<"0">>

\* value.toFixed(2) of a finite non-negative number: the nearest hundredth,
\* the larger one when two are equally near
toFixed2(value) ==
    LET n == (2 * 100 * value[1] + value[2]) \div (2 * value[2])
        cents == n % 100
    IN  IntToText(n \div 100) \o <<".">> \o IntToText(cents \div 10) \o IntToText(cents % 10)

\* text.replace(/\.?0+$/, '') of a toFixed(2) text
StripTrailingZeros(text) ==
    LET zeros == RunLenBack(text, LAMBDA c : c = "0")
        kept == SubSeq(text, 1, Len(text) - zeros)
    IN  IF zeros > 0 /\ kept # <<>> /\ kept[Len(kept)] = "."
        THEN SubSeq(kept, 1, Len(kept) - 1)
        ELSE kept

\* formatNumber(value, useFractions), value finite and not negative
formatNumber(value, useFractions) ==
    IF useFractions THEN decimalToFraction(value)
    ELSE IF value[2] = 1 THEN IntToText(value[1])
    ELSE StripTrailingZeros(toFixed2(value))

(***************************************************************************)
(* lib/units.ts: fractionToDecimal                                         *)
(***************************************************************************)
\* the factor of an exponent: sign is "+" or "-", digits the digits after it
ExponentScale(sign, digits) ==
    IF digits = <<>> THEN Num(1)
    ELSE IF sign = "-" THEN Norm(1, Pow10(DigitsVal(digits)))
    ELSE Num(Pow10(DigitsVal(digits)))

\* the digits that start s
DigitRun(s) == SubSeq(s, 1, RunLen(s, 0, IsDigit))

\* the factor of the exponent part that starts r, 1 if r starts with none
ExponentOf(r) ==
    IF Len(r) >= 1 /\ r[1] \in {"e", "E"}
    THEN IF Len(r) >= 2 /\ r[2] \in {"+", "-"}
         THEN ExponentScale(r[2], DigitRun(Slice(r, 2)))
         ELSE ExponentScale("+", DigitRun(Slice(r, 1)))
    ELSE Num(1)

\* the value of s, which starts with intLen digits, dotLen dots (0 or 1) and
\* fracLen digits
ParseMantissa(s, intLen, dotLen, fracLen) ==
    IF intLen + fracLen = 0 THEN NaN
    ELSE NumMul(Norm(DigitsVal(SubSeq(s, 1, intLen)
                                \o SubSeq(s, intLen + 2, intLen + 1 + fracLen)),
                     Pow10(fracLen)),
                ExponentOf(Slice(s, intLen + dotLen + fracLen)))

\* the value of s, which starts with intLen digits
ParseDigits(s, intLen) ==
    IF intLen < Len(s) /\ s[intLen + 1] = "."
    THEN ParseMantissa(s, intLen, 1, RunLen(s, intLen + 1, IsDigit))
    ELSE ParseMantissa(s, intLen, 0, 0)

\* the value of an unsigned literal that starts s
ParseUnsigned(s) ==
    IF StartsWithAt(s, 0, <<"I", "n", "f", "i", "n", "i", "t", "y">>) THEN Infinity
    ELSE ParseDigits(s, RunLen(s, 0, IsDigit))

\* the value of a literal with an optional sign that starts s
ParseSigned(s) ==
    IF s # <<>> /\ s[1] \in {"+", "-"}
    THEN NumMul(Num(IF s[1] = "-" THEN -1 ELSE 1), ParseUnsigned(Tail(s)))
    ELSE ParseUnsigned(s)

\* parseFloat(text): the value of the longest prefix of the text, leading
\* whitespace skipped, that is a decimal literal; NaN if there is none
parseFloat(text) == ParseSigned(Slice(text, RunLen(text, 0, IsSpace)))

\* unicodeFractions: [glyph, value] in the order of Object.entries
unicodeFractions ==
    << <<"{1/8}", <<1, 8>>>>, <<"{1/4}", <<1, 4>>>>, <<"{1/3}", <<333, 1000>>>>,
       <<"{3/8}", <<3, 8>>>>, <<"{1/2}", <<1, 2>>>>, <<"{5/8}", <<5, 8>>>>,
       <<"{2/3}", <<333, 500>>>>, <<"{3/4}", <<3, 4>>>>, <<"{7/8}", <<7, 8>>>> >>

\* position of the first occurrence of character c in s, 0 if there is none
IndexOf(s, c) ==
    IF \E i \in 1..Len(s) : s[i] = c
    THEN CHOOSE i \in 1..Len(s) : s[i] = c /\ \A j \in 1..(i - 1) : s[j] # c
    ELSE 0

\* clean.match(/^(\d+)?\s*(\d+)\/(\d+)$/) with the first group taking the
\* first k characters, the second group starting at offset numStart and the
\* slash expected at offset slash: the three groups, or NULL
SlashGroups(clean, k, numStart, slash) ==
    IF /\ slash > numStart
       /\ slash + 1 < Len(clean) /\ clean[slash + 1] = "/"
       /\ \A i \in (slash + 2)..Len(clean) : IsDigit(clean[i])
    THEN Some(<<SubSeq(clean, 1, k), SubSeq(clean, numStart + 1, slash),
                Slice(clean, slash + 1)>>)
    ELSE NULL

SlashWith(clean, k, numStart) ==
    SlashGroups(clean, k, numStart, numStart + RunLen(clean, numStart, IsDigit))

\* a if it is not null, b otherwise
OrElse(a, b) == IF a # NULL THEN a ELSE b

\* the match with the first group taking k digits or, where there is none,
\* fewer: d1 is the length of the digit run that starts the text.  The
\* optional first group is tried from its longest match down to one digit
\* and then left out; what it leaves of the digit run goes to the second
\* group, and whitespace can follow only the whole run.
RECURSIVE SlashFrom(_, _, _)
SlashFrom(clean, d1, k) ==
    IF k < 0 THEN NULL
    ELSE OrElse(SlashWith(clean, k,
                          IF k = d1 THEN k + RunLen(clean, k, IsSpace) ELSE k),
                SlashFrom(clean, d1, k - 1))

\* clean.match(/^(\d+)?\s*(\d+)\/(\d+)$/): <<whole digits, numerator digits,
\* denominator digits>>, or NULL
SlashMatch(clean) ==
    SlashFrom(clean, RunLen(clean, 0, IsDigit), RunLen(clean, 0, IsDigit))

\* index in unicodeFractions of the first entry whose glyph occurs in clean,
\* 0 if no glyph occurs
FirstGlyph(clean) ==
    LET present == {i \in 1..Len(unicodeFractions) :
                        IndexOf(clean, unicodeFractions[i][1]) > 0}
    IN  IF present = {} THEN 0
        ELSE CHOOSE i \in present : \A j \in present : i <= j

\* parts[0] ? parseFloat(parts[0]) : 0, slashMatch[1] ? parseFloat(slashMatch[1]) : 0
WholeOf(digits) == IF digits # <<>> THEN parseFloat(digits) ELSE Num(0)

\* fractionToDecimal on the trimmed text: g is FirstGlyph(clean), slashMatch
\* is SlashMatch(clean) and num is parseFloat(clean)
FractionOf(clean, g, slashMatch, num) ==
    IF g # 0
    THEN Some(NumAdd(WholeOf(SubSeq(clean, 1, IndexOf(clean, unicodeFractions[g][1]) - 1)),
                     unicodeFractions[g][2]))
    ELSE IF slashMatch # NULL
         THEN Some(NumAdd(WholeOf(slashMatch[1][1]),
                          NumDiv(parseFloat(slashMatch[1][2]), parseFloat(slashMatch[1][3]))))
    ELSE IF IsNaN(num) THEN NULL ELSE Some(num)

FractionOfClean(clean) ==
    FractionOf(clean, FirstGlyph(clean), SlashMatch(clean), parseFloat(clean))

\* fractionToDecimal(text)
fractionToDecimal(text) == FractionOfClean(trim(text))

(***************************************************************************)
(* lib/parser.ts: sanitizeInput                                            *)
(***************************************************************************)
\* the checkbox characters U+25A2, U+25A1, U+2610, U+2611, U+2612
BoxGlyphs == {"{U+25A2}", "{U+25A1}", "{U+2610}", "{U+2611}", "{U+2612}"}

\* text.replace(/<[^>]*>/g, ''): from each "<" through the next ">"
RECURSIVE RemoveTags(_)
RemoveTags(s) ==
    IF s = <<>> THEN <<>>
    ELSE IF s[1] = "<" /\ IndexOf(s, ">") > 0
         THEN RemoveTags(Slice(s, IndexOf(s, ">")))
    ELSE <<s[1]>> \o RemoveTags(Tail(s))

\* length of the match of /https?:\/\/[^\s]+/ at the start of s, 0 if none
UrlLen(s) ==
    LET head == IF StartsWithAt(s, 0, <<"h", "t", "t", "p", "s", ":", "/", "/">>) THEN 8
                ELSE IF StartsWithAt(s, 0, <<"h", "t", "t", "p", ":", "/", "/">>) THEN 7
                ELSE 0
        tail == RunLen(s, head, LAMBDA c : ~IsSpace(c))
    IN  IF head > 0 /\ tail > 0 THEN head + tail ELSE 0

\* cleaned.replace(/https?:\/\/[^\s]+/g, '')
RECURSIVE RemoveUrls(_)
RemoveUrls(s) ==
    IF s = <<>> THEN <<>>
    ELSE IF UrlLen(s) > 0 THEN RemoveUrls(Slice(s, UrlLen(s)))
    ELSE <<s[1]>> \o RemoveUrls(Tail(s))

\* the match of the checkbox pattern that starts after the first p
\* characters: d is where the box ends, 0 if there is no box
BoxEnd(s, p, d) == IF d = 0 THEN p ELSE d + RunLen(s, d, IsSpace)

\* (\[[ xX]?\]|box glyph) at offset c
BoxAt(s, p, c) ==
    BoxEnd(s, p,
           IF c < Len(s) /\ s[c + 1] \in BoxGlyphs THEN c + 1
           ELSE IF c + 2 < Len(s) /\ s[c + 1] = "[" /\ s[c + 2] \in {" ", "x", "X"}
                   /\ s[c + 3] = "]" THEN c + 3
           ELSE IF c + 1 < Len(s) /\ s[c + 1] = "[" /\ s[c + 2] = "]" THEN c + 2
           ELSE 0)

\* [-*]?\s* at offset a
BulletAt(s, p, a) ==
    IF a < Len(s) /\ s[a + 1] \in {"-", "*"}
    THEN BoxAt(s, p, a + 1 + RunLen(s, a + 1, IsSpace))
    ELSE BoxAt(s, p, a)

\* where the match of /[\s]*[-*]?\s*(\[[ xX]?\]|box glyph)\s*/ that starts
\* after the first p characters of s ends; p if there is no match
CheckboxEnd(s, p) == BulletAt(s, p, p + RunLen(s, p, IsSpace))

\* cleaned.replace(/^...checkbox.../gm, ''), from offset p on: ^ matches at
\* the start of the text and after a line break
RECURSIVE RemoveCheckboxes(_, _)
RemoveCheckboxes(s, p) ==
    IF p >= Len(s) THEN <<>>
    ELSE IF (p = 0 \/ s[p] \in LineTerminators) /\ CheckboxEnd(s, p) > p
         THEN RemoveCheckboxes(s, CheckboxEnd(s, p))
    ELSE <<s[p + 1]>> \o RemoveCheckboxes(s, p + 1)

\* cleaned.replace(/[\u25A2\u25A1\u2610\u2611\u2612]/g, '')
RemoveBoxGlyphs(s) == SelectSeq(s, LAMBDA c : c \notin BoxGlyphs)

\* cleaned.replace(/\s+/g, ' ')
RECURSIVE CollapseWhitespace(_)
CollapseWhitespace(s) ==
    IF s = <<>> THEN <<>>
    ELSE IF IsSpace(s[1])
         THEN <<" ">> \o CollapseWhitespace(Slice(s, RunLen(s, 0, IsSpace)))
    ELSE <<s[1]>> \o CollapseWhitespace(Tail(s))

\* sanitizeInput(text)
sanitizeInput(text) ==
    trim(CollapseWhitespace(RemoveBoxGlyphs(
        RemoveCheckboxes(RemoveUrls(RemoveTags(text)), 0))))

(***************************************************************************)
(* lib/parser.ts: parseQuantityAndUnit                                     *)
(***************************************************************************)
\* qtyStr.includes('/') || /[glyph]/.test(qtyStr)
IsFractionText(qtyStr) == \E i \in 1..Len(qtyStr) : qtyStr[i] \in Glyphs \cup {"/"}

\* the result of parseQuantityAndUnit: unit is findUnit(unitMatch[1]), NULL
\* also when unitPattern does not match, and unitEnd is unitMatch[0].length
QuantityAndUnit(quantity, isFraction, afterQty, unit, unitEnd) ==
    Some([quantity |-> quantity,
          unit |-> unit,
          rest |-> IF unit # NULL THEN trim(Slice(afterQty, unitEnd)) ELSE afterQty,
          isFraction |-> isFraction])

\* unitPattern /^([a-zA-Z.]+\.?)\s*/ on afterQty, whose first unitLen
\* characters are unit characters
MatchUnit(quantity, isFraction, afterQty, unitLen) ==
    IF quantity = NULL THEN NULL
    ELSE QuantityAndUnit(quantity[1], isFraction, afterQty,
                         IF unitLen > 0 THEN findUnit(SubSeq(afterQty, 1, unitLen))
                         ELSE NULL,
                         unitLen + RunLen(afterQty, unitLen, IsSpace))

\* qtyStr is qtyMatch[1].trim() and afterQty is what follows qtyMatch[0]
ParseQuantity(qtyStr, afterQty) ==
    MatchUnit(fractionToDecimal(qtyStr), IsFractionText(qtyStr), afterQty,
              RunLen(afterQty, 0, IsUnitChar))

\* qtyPattern /^([quantity characters]+)/ on clean, whose first qtyLen
\* characters are quantity characters
MatchQuantity(clean, qtyLen) ==
    IF qtyLen = 0 THEN NULL
    ELSE ParseQuantity(trim(SubSeq(clean, 1, qtyLen)), trim(Slice(clean, qtyLen)))

MatchQuantityOf(clean) == MatchQuantity(clean, RunLen(clean, 0, IsQtyChar))

\* parseQuantityAndUnit(text): NULL, or <<[quantity, unit, rest, isFraction]>>
\* with unit NULL or <<key>>
parseQuantityAndUnit(text) == MatchQuantityOf(trim(text))

(***************************************************************************)
(* lib/parser.ts: the combined-quantity pattern                            *)
(*   /^(Q+)\s*([a-zA-Z.]*\.?)?\s*(?:\+|and)\s*(Q+)\s*([a-zA-Z.]*\.?)?\s+(.+)$/i *)
(* with Q the quantity character class.  The pattern is a sequence of      *)
(* pieces, each a greedy run of one character class except the joiner.     *)
(* A greedy run takes the longest stretch for which the pieces after it    *)
(* still match up to the end of the text, and gives back one character at  *)
(* a time when they do not.                                                *)
(***************************************************************************)
CombinedPieces ==
    <<"qty", "ws", "unit", "ws", "join", "ws", "qty", "ws", "unit", "gap", "rest">>

\* length of the longest run of the piece's character class at offset p
PieceRun(s, p, piece) ==
    CASE piece = "qty" -> RunLen(s, p, IsQtyChar)
      [] piece = "unit" -> RunLen(s, p, IsUnitChar)
      [] piece \in {"ws", "gap"} -> RunLen(s, p, IsSpace)
      [] piece = "rest" -> RunLen(s, p, LAMBDA c : c \notin LineTerminators)

\* the fewest characters the piece takes: + against *
PieceMin(piece) == IF piece \in {"qty", "gap", "rest"} THEN 1 ELSE 0

\* where (?:\+|and) ends when it starts at offset p, -1 if it does not match
JoinEnd(s, p) ==
    IF StartsWithAt(s, p, <<"+">>) THEN p + 1
    ELSE IF p + 3 <= Len(s) /\ toLowerCase(SubSeq(s, p + 1, p + 3)) = <<"a", "n", "d">>
         THEN p + 3
    ELSE -1

RECURSIVE PieceEnd(_, _, _)
RECURSIVE TryEnd(_, _, _, _)
\* whether pieces k, k+1, ... match from offset p to the end of the text
PiecesMatch(s, p, k) ==
    IF k > Len(CombinedPieces) THEN p = Len(s) ELSE PieceEnd(s, p, k) # -1

\* the longest end x, from x down, of piece k started at offset p such that
\* the later pieces match; -1 if there is none
TryEnd(s, p, k, x) ==
    IF x < p + PieceMin(CombinedPieces[k]) THEN -1
    ELSE IF PiecesMatch(s, x, k + 1) THEN x
    ELSE TryEnd(s, p, k, x - 1)

\* where piece k ends when it starts at offset p, -1 when the pattern does
\* not match from there
PieceEnd(s, p, k) ==
    IF CombinedPieces[k] = "join"
    THEN IF JoinEnd(s, p) # -1 /\ PiecesMatch(s, JoinEnd(s, p), k + 1)
         THEN JoinEnd(s, p) ELSE -1
    ELSE TryEnd(s, p, k, p + PieceRun(s, p, CombinedPieces[k]))

\* the offsets at which the pieces end, given that the pattern matches:
\* ends holds those of the pieces before piece k
RECURSIVE PieceEndsFrom(_, _, _)
PieceEndsFrom(s, k, ends) ==
    IF k > Len(CombinedPieces) THEN ends
    ELSE PieceEndsFrom(s, k + 1,
             Append(ends, PieceEnd(s, IF k = 1 THEN 0 ELSE ends[k - 1], k)))

PieceEnds(s) == PieceEndsFrom(s, 1, <<>>)

\* the five groups of a match whose pieces end at the offsets e
CombinedGroups(s, e) ==
    [qty1Str |-> SubSeq(s, 1, e[1]),
     unit1Str |-> SubSeq(s, e[2] + 1, e[3]),
     qty2Str |-> SubSeq(s, e[6] + 1, e[7]),
     unit2Str |-> SubSeq(s, e[8] + 1, e[9]),
     rest |-> SubSeq(s, e[10] + 1, e[11])]

\* mainText.match(combined pattern): NULL, or the five groups
CombinedMatch(s) ==
    IF ~PiecesMatch(s, 0, 1) THEN NULL
    ELSE Some(CombinedGroups(s, PieceEnds(s)))

(***************************************************************************)
(* lib/parser.ts: parseIngredientLine                                      *)
(***************************************************************************)
\* offset of the first match of /\(([^)]+)\)/ in s, -1 if there is none:
\* a "(" followed by at least one character other than ")" and then a ")"
ParenStart(s) ==
    LET ok(p) == /\ s[p + 1] = "("
                 /\ RunLen(s, p + 1, LAMBDA c : c # ")") > 0
                 /\ p + 1 + RunLen(s, p + 1, LAMBDA c : c # ")") < Len(s)
    IN  IF \E p \in 0..(Len(s) - 1) : ok(p)
        THEN CHOOSE p \in 0..(Len(s) - 1) : ok(p) /\ \A q \in 0..(p - 1) : ~ok(q)
        ELSE -1

\* a bug: only the first parenthetical is removed
RemoveParens_first(s) ==
    IF ParenStart(s) = -1 THEN s
    ELSE SubSeq(s, 1, ParenStart(s))
         \o Slice(s, ParenStart(s) + 2
                      + RunLen(s, ParenStart(s) + 1, LAMBDA c : c # ")"))

\* clean.replace(/\([^)]+\)/g, '')
RECURSIVE RemoveParens(_)
RemoveParens(s) ==
    IF s = <<>> THEN <<>>
    ELSE IF ParenStart(s) = 0
         THEN RemoveParens(Slice(s, 2 + RunLen(s, 1, LAMBDA c : c # ")")))
    ELSE <<s[1]>> \o RemoveParens(Tail(s))

\* generateId(): `ing_${Date.now()}_${idCounter++}`
generateId(now, counter) ==
    <<"i", "n", "g", "_">> \o IntToText(now) \o <<"_">> \o IntToText(counter)

\* a bug: a first unit wins over a different second one
CombinedUnit_firstWins(unit1, unit2) ==
    IF unit1 # NULL THEN unit1 ELSE unit2

\* a bug: a second unit wins over a different first one
CombinedUnit_secondWins(unit1, unit2) ==
    IF unit2 # NULL THEN unit2 ELSE unit1

\* the unit a combined quantity is summed under, NULL when the line is not
\* combined: the same unit on both sides, or the unit of the one side that
\* has a unit
CombinedUnit(unit1, unit2) ==
    IF unit1 # NULL /\ unit1 = unit2 THEN unit1
    ELSE IF unit1 # NULL /\ unit2 = NULL THEN unit1
    ELSE IF unit1 = NULL /\ unit2 # NULL THEN unit2
    ELSE NULL

\* the first parenthetical of clean (parenMatch[1]), NULL if there is none
Parenthetical(clean) ==
    IF ParenStart(clean) = -1 THEN NULL
    ELSE Some(SubSeq(clean, ParenStart(clean) + 2,
                     ParenStart(clean) + 1
                     + RunLen(clean, ParenStart(clean) + 1, LAMBDA c : c # ")")))

\* unit1Str ? findUnit(unit1Str.trim()) : null
UnitOfGroup(unitStr) == IF unitStr # <<>> THEN findUnit(trim(unitStr)) ELSE NULL

\* the combined measurement of a match with groups m, NULL when the line is
\* not combined
CombineGroups(m, unit, qty1, qty2) ==
    IF qty1 # NULL /\ qty2 # NULL /\ unit # NULL
    THEN Some([quantity |-> NumAdd(qty1[1], qty2[1]),
               unit |-> unit,
               rest |-> trim(m.rest),
               isFraction |-> IsFractionText(m.qty1Str)])
    ELSE NULL

Combine(combinedMatch) ==
    IF combinedMatch = NULL THEN NULL
    ELSE CombineGroups(combinedMatch[1],
                       CombinedUnit(UnitOfGroup(combinedMatch[1].unit1Str),
                                    UnitOfGroup(combinedMatch[1].unit2Str)),
                       fractionToDecimal(combinedMatch[1].qty1Str),
                       fractionToDecimal(combinedMatch[1].qty2Str))

\* the object returned: parenParsed is parseQuantityAndUnit(parenthetical)
\* and parsed the combined measurement or, where the line is not combined,
\* parseQuantityAndUnit(mainText)
Ingredient(clean, id, parenthetical, parenParsed, parsed) ==
    [id |-> id,
     original |-> clean,
     quantity |-> IF parsed = NULL THEN NULL ELSE Some(parsed[1].quantity),
     unit |-> IF parsed = NULL THEN NULL ELSE parsed[1].unit,
     ingredient |-> IF parsed = NULL THEN clean ELSE parsed[1].rest,
     parenthetical |-> parenthetical,
     parentheticalQuantity |->
         IF parenParsed = NULL THEN NULL ELSE Some(parenParsed[1].quantity),
     parentheticalUnit |-> IF parenParsed = NULL THEN NULL ELSE parenParsed[1].unit,
     checked |-> FALSE,
     isFraction |-> IF parsed = NULL THEN FALSE ELSE parsed[1].isFraction]

ParseMain(clean, id, parenthetical, mainText) ==
    Ingredient(clean, id, parenthetical,
               IF parenthetical = NULL THEN NULL
               ELSE parseQuantityAndUnit(parenthetical[1]),
               OrElse(Combine(CombinedMatch(mainText)), parseQuantityAndUnit(mainText)))

\* the body of parseIngredientLine after the length check; clean is the
\* sanitized line, id the identifier generateId() returns
ParseClean(clean, id) ==
    ParseMain(clean, id, Parenthetical(clean), trim(RemoveParens(clean)))

\* a bug: the length check only rejects the empty text
ParseSanitized_keepsShort(clean, id) ==
    IF Len(clean) < 1 THEN NULL ELSE Some(ParseClean(clean, id))

\* parseIngredientLine from the length check on
ParseSanitized(clean, id) ==
    IF Len(clean) < 2 THEN NULL ELSE Some(ParseClean(clean, id))

\* parseIngredientLine(line) when Date.now() is now and idCounter is counter
parseIngredientLine(line, now, counter) ==
    ParseSanitized(trim(sanitizeInput(line)), generateId(now, counter))

(***************************************************************************)
(* The state of the Index page (pages/Index.tsx) when it is mounted        *)
(* without a URL hash, a convert parameter or a stored conversion.         *)
(***************************************************************************)
EmptyRecipe == [sections |-> <<>>, notes |-> <<>>, instructions |-> <<>>, title |-> <<>>]

\* loadLastConversion() with nothing stored: 1 cup
loadLastConversion == [quantity |-> Num(1), unit |-> "cup"]

InitialApp ==
    [recipe |-> EmptyRecipe,
     scale |-> Num(1),
     useFractions |-> TRUE,
     isConversionMode |-> FALSE,
     conversionInput |-> loadLastConversion,
     showConversionPreview |-> TRUE]

\* useLongPress as first rendered: isPressed false, no timer, and for the
\* observer no press held, no timer pending and no callback called
IdleHook ==
    [isPressed |-> FALSE, timerRef |-> NULL, isLongPressRef |-> FALSE,
     pending |-> {}, timers |-> 0, held |-> FALSE, longPressed |-> FALSE,
     called |-> "none"]

\* no identifier generated, no parseRecipeText call in progress, page as mounted
InitSession ==
    /\ clock = 0
    /\ idCounter = 0
    /\ issued = <<>>
    /\ parse = NULL
    /\ app = InitialApp
    /\ hook = IdleHook

(***************************************************************************)
(* Calls of the functions of lib/units.ts                                  *)
(***************************************************************************)
MaxQtyNum == 3       \* numerators of the values converted
MaxQtyDen == 2       \* denominators of the values converted
\* the values formatted are the multiples of 1/FmtDen up to
\* MaxFmtSteps/FmtDen; FmtDen is twice the denominator 1000 of the table's
\* thirds, so that 1/16, every entry and every midpoint of two entries is
\* one of the values
FmtDen == 2 * 1000
MaxFmtSteps == 4200

UpperOf == [c \in LowerLetters |-> CHOOSE u \in UpperLetters : LowerOf[u] = c]
toUpperCase(s) ==
    [i \in 1..Len(s) |-> IF s[i] \in LowerLetters THEN UpperOf[s[i]] ELSE s[i]]

OwnKeys == DOMAIN UNITS
AliasesOf(key) == {UNITS[key].abbrev[i] : i \in 1..Len(UNITS[key].abbrev)}
AllAliases == UNION {AliasesOf(key) : key \in OwnKeys}
AllNames == {UNITS[key].name : key \in OwnKeys}

\* the texts looked up: every name and alias as written, in upper case,
\* padded with whitespace, cut short and with a letter added, and the
\* empty text
FindUnitTexts ==
    LET base == AllAliases \cup AllNames
    IN  base
        \cup {toUpperCase(a) : a \in base}
        \cup {<<" ">> \o a \o <<"\t">> : a \in base}
        \cup UNION {{SubSeq(a, 1, k) : k \in 1..(Len(a) - 1)} : a \in base}
        \cup {Append(a, "s") : a \in base}
        \cup {<<>>}

\* the keys tried: the table's, inherited property names, and two strings
\* that are neither (an alias is not a key)
KeysTried == OwnKeys \cup InheritedKeys \cup {"cups", ""}

ConvertValues == {Norm(n, d) : n \in 0..MaxQtyNum, d \in 1..MaxQtyDen}
FormatValues == {Norm(k, FmtDen) : k \in 0..MaxFmtSteps}

InitUnits ==
    /\ pc = "ready"
    /\ output = NULL
    /\ shape = [kind |-> "none"]
    /\ InitSession
    /\ \/ fn = "findUnit" /\ input \in FindUnitTexts
       \/ /\ fn = "convertUnit"
          /\ input \in [value : ConvertValues, fromUnit : KeysTried, toUnit : KeysTried]
       \/ fn = "getCompatibleUnits" /\ input \in KeysTried
       \/ /\ fn = "formatNumber"
          /\ input \in [value : FormatValues, useFractions : BOOLEAN]

FindUnitCall ==
    /\ pc = "ready" /\ fn = "findUnit"
    /\ output' = findUnit(input)
    /\ pc' = "done"
    /\ UNCHANGED <<fn, input, shape, clock, idCounter, issued, parse, app, hook>>

ConvertUnitCall ==
    /\ pc = "ready" /\ fn = "convertUnit"
    /\ output' = convertUnit(input.value, input.fromUnit, input.toUnit)
    /\ pc' = "done"
    /\ UNCHANGED <<fn, input, shape, clock, idCounter, issued, parse, app, hook>>

GetCompatibleUnitsCall ==
    /\ pc = "ready" /\ fn = "getCompatibleUnits"
    /\ output' = getCompatibleUnits(input)
    /\ pc' = "done"
    /\ UNCHANGED <<fn, input, shape, clock, idCounter, issued, parse, app, hook>>

FormatNumberCall ==
    /\ pc = "ready" /\ fn = "formatNumber"
    /\ output' = formatNumber(input.value, input.useFractions)
    /\ pc' = "done"
    /\ UNCHANGED <<fn, input, shape, clock, idCounter, issued, parse, app, hook>>

NextUnits ==
    \/ FindUnitCall
    \/ ConvertUnitCall
    \/ GetCompatibleUnitsCall
    \/ FormatNumberCall

SpecUnits == InitUnits /\ [][NextUnits]_vars

Returned(f) == pc = "done" /\ fn = f

(***************************************************************************)
(* Claims about lib/units.ts, checked under SpecUnits                      *)
(***************************************************************************)
\* the units one of whose aliases equals the text, both lower-cased, the
\* text trimmed
MatchingUnits(text) ==
    {key \in OwnKeys :
        \E a \in AliasesOf(key) : toLowerCase(a) = trim(toLowerCase(text))}

IndexOfKey(key) == CHOOSE i \in 1..Len(UnitKeys) : UnitKeys[i] = key

\* C5: for every unit u of the table, findUnit(u.name) returns u's key and
\* findUnit(a) returns u's key for every alias a listed in u.abbrev
C5_NameAndAliasResolve ==
    Returned("findUnit") =>
        \A key \in OwnKeys :
            (input = UNITS[key].name \/ input \in AliasesOf(key))
                => output = Some(key)

C7_ConvertUnitContract ==
    Returned("convertUnit") =>
        LET f == input.fromUnit
            t == input.toUnit
        IN  IF f \notin OwnKeys \/ t \notin OwnKeys THEN output = NULL
            ELSE IF (UNITS[f].category = "count") # (UNITS[t].category = "count")
                 THEN output = NULL
            ELSE /\ output # NULL
                 /\ NumMul(output[1], UNITS[t].toBase)
                        = NumMul(input.value, UNITS[f].toBase)
                 /\ (input.value = Num(1) /\ {f, t} = {"ml", "g"}
                        => output = Some(Num(1)))

\* C8: for every pair of units (a, b) of one category and every positive q,
\* convertUnit(convertUnit(q, a, b), b, a) is not null and equals q
C8_RoundTrip ==
    (/\ Returned("convertUnit")
     /\ input.fromUnit \in OwnKeys /\ input.toUnit \in OwnKeys
     /\ UNITS[input.fromUnit].category = UNITS[input.toUnit].category
     /\ NumLess(Num(0), input.value))
        => /\ output # NULL
           /\ convertUnit(output[1], input.toUnit, input.fromUnit)
                = Some(input.value)

\* a positive quantity has been converted to another unit of its category,
\* which changed its value
C8_Witness ==
    /\ Returned("convertUnit")
    /\ input.fromUnit = "cup" /\ input.toUnit = "tsp"
    /\ input.value = <<3, 2>>
    /\ output # NULL /\ NumLess(input.value, output[1])

Range(s) == {s[i] : i \in 1..Len(s)}

\* C9: getCompatibleUnits(u) is, for a volume or weight unit u, exactly the
\* volume and weight unit keys other than u; for a count unit, exactly the
\* other count unit keys; it never holds u; an unknown key gives the empty
\* list
C9_CompatibleUnits ==
    Returned("getCompatibleUnits") =>
        /\ input \notin Range(output)
        /\ Cardinality(Range(output)) = Len(output)
        /\ IF input \notin OwnKeys THEN output = <<>>
           ELSE IF UNITS[input].category \in {"volume", "weight"}
                THEN Range(output) =
                        {key \in OwnKeys :
                            UNITS[key].category \in {"volume", "weight"}} \ {input}
           ELSE Range(output) =
                    {key \in OwnKeys : UNITS[key].category = "count"} \ {input}

\* the compatible units of a volume unit have been listed, a weight unit
\* among them
C9_Witness ==
    /\ Returned("getCompatibleUnits")
    /\ input = "cup"
    /\ "g" \in Range(output) /\ "tsp" \in Range(output)

\* C10: formatNumber(value, true), value not negative: a fractional
\* remainder below 1/16 gives the whole part alone; otherwise the whole
\* part (left out when 0) followed by the glyph whose value is nearest to
\* the remainder, the first such glyph of the list on a tie; 0.333 gives
\* the glyph of one third and 1.5 gives 1 and the glyph of one half
C10_FractionFormat ==
    (Returned("formatNumber") /\ input.useFractions) =>
        LET v == input.value
            whole == v[1] \div v[2]
            rest == <<v[1] % v[2], v[2]>>
            dist(i) == NumAbs(NumSub(rest, FRACTION_MAP[i][1]))
        IN  /\ IF 16 * rest[1] < rest[2] THEN output = IntToText(whole)
               ELSE \E i \in 1..Len(FRACTION_MAP) :
                       /\ output = (IF whole = 0 THEN <<>> ELSE IntToText(whole))
                                     \o <<FRACTION_MAP[i][2]>>
                       /\ \A j \in 1..Len(FRACTION_MAP) : ~NumLess(dist(j), dist(i))
                       /\ \A j \in 1..(i - 1) : NumLess(dist(i), dist(j))
            /\ (v = <<333, 1000>> => output = <<"{1/3}">>)
            /\ (v = <<3, 2>> => output = <<"1", "{1/2}">>)

\* a value whose remainder is equally near two glyphs has been formatted
C10_Witness ==
    /\ Returned("formatNumber") /\ input.useFractions
    /\ input.value = <<19, 16>>
    /\ output = <<"1", "{1/8}">>

(***************************************************************************)
(* Calls of parseIngredientLine.  The lines parsed are every text of up to *)
(* MaxLineLen characters over RawChars, the sample lines, and lines built  *)
(* from a shape: a quantity, a unit token and a description (standard), a  *)
(* description alone (plain), or two measurements joined by "+" or "and"   *)
(* (combined).  The shape is kept beside the line so that a result can be  *)
(* compared with the parts the line was built from.                        *)
(***************************************************************************)
MaxLineLen == 3      \* length of the texts over RawChars
MaxNow == 1          \* Date.now() is between 0 and MaxNow

RawChars == {"a", "2", " ", "<", ">", "{U+2610}"}

RECURSIVE LinesUpTo(_)
LinesUpTo(n) ==
    IF n = 0 THEN {<<>>}
    ELSE LinesUpTo(n - 1)
         \cup {Append(l, c) : l \in LinesUpTo(n - 1), c \in RawChars}

Samples ==
    << <<"2", " ", "c", "u", "p", "s", " ", "f", "l", "o", "u", "r">>,
       <<"2", " ", "c", "u", "p", "s", " ", "+", " ", "2", " ", "T", "b", "s", "p", " ", "s", "u", "g", "a", "r">>,
       <<"1", " ", "1", "/", "2", " ", "t", "s", "p", " ", "s", "a", "l", "t", " ", "(", "7", "g", ")">>,
       <<"h", "t", "t", "p", "s", ":", "/", "/", "x", ".", "y", "/", "z">>,
       <<"s", "e", "e", " ", "h", "t", "t", "p", ":", "/", "/", "x", ".", "y">>,
       <<"-", " ", "[", "x", "]", " ", "2", " ", "c", "u", "p", "s", " ", "f", "l", "o", "u", "r">>,
       <<"*", " ", "[", " ", "]">>,
       <<"{U+2610}", " ", "1", "{1/2}", " ", "c", "u", "p", "s", " ", "s", "u", "g", "a", "r">>,
       <<"<", "l", "i", ">", "3", " ", "e", "g", "g", "s", "<", "/", "l", "i", ">">>,
       <<"<", "b", "r", "/", ">">>,
       <<"1", " ", "a", "n", "d", " ", "1", "/", "2", " ", "t", "e", "a", "s", "p", "o", "o", "n", "s", " ", "s", "a", "l", "t">>,
       <<"s", "a", "l", "t">>,
       <<"(", ")">>,
       <<"(", "2", " ", "o", "z", ")", " ", "b", "u", "t", "t", "e", "r">>,
       <<"2", " ", "e", "g", "g", "s", " ", "a", "n", "d", " ", "3", " ", "t", "b", "s", "p", " ", "m", "i", "l", "k">>,
       <<"2", " ", "f", "l", " ", "o", "z", " ", "m", "i", "l", "k">> >>

PlainTexts ==
    { <<"s", "a", "l", "t", " ", "t", "o", " ", "t", "a", "s", "t", "e">>,
      <<"b", "u", "t", "t", "e", "r">>,
      <<"a", " ", "p", "i", "n", "c", "h", " ", "o", "f", " ", "s", "a", "l", "t">>,
      <<"e", "g", "g", "s", " ", "(", "2", " ", "l", "a", "r", "g", "e", ")">> }

\* the quantity expressions: a whole number, a decimal w.5, a fraction a/b,
\* a mixed number w a/b, a fraction glyph and a whole number with a glyph
FracNums == {1, 3, 15}
FracDens == {2, 4, 16}
QtyForms ==
    [form : {"int", "dec"}, w : 1..MaxQtyNum, a : {0}, b : {1}, g : {""}]
    \cup [form : {"frac"}, w : {0}, a : FracNums, b : FracDens, g : {""}]
    \cup [form : {"mixed"}, w : 1..MaxQtyNum, a : {1}, b : FracDens, g : {""}]
    \cup [form : {"glyph"}, w : {0}, a : {0}, b : {1}, g : Glyphs]
    \cup [form : {"wglyph"}, w : {1}, a : {0}, b : {1}, g : Glyphs]

QtyText(q) ==
    CASE q.form = "int" -> IntToText(q.w)
      [] q.form = "dec" -> IntToText(q.w) \o <<".", "5">>
      [] q.form = "frac" -> IntToText(q.a) \o <<"/">> \o IntToText(q.b)
      [] q.form = "mixed" ->
            IntToText(q.w) \o <<" ">> \o IntToText(q.a) \o <<"/">> \o IntToText(q.b)
      [] q.form = "glyph" -> <<q.g>>
      [] q.form = "wglyph" -> IntToText(q.w) \o <<q.g>>

\* the value of glyph g in the table unicodeFractions
GlyphValue(g) ==
    LET i == CHOOSE j \in 1..Len(unicodeFractions) : unicodeFractions[j][1] = g
    IN  unicodeFractions[i][2]

\* the number a quantity expression stands for
QtyValue(q) ==
    CASE q.form = "int" -> Num(q.w)
      [] q.form = "dec" -> Norm(2 * q.w + 1, 2)
      [] q.form = "frac" -> Norm(q.a, q.b)
      [] q.form = "mixed" -> Norm(q.w * q.b + q.a, q.b)
      [] q.form = "glyph" -> GlyphValue(q.g)
      [] q.form = "wglyph" -> NumAdd(Num(q.w), GlyphValue(q.g))

\* unit tokens of the standard lines; <<>> is no token, "eggs" is not a unit
StandardTokens == {<<>>, <<"c", "u", "p", "s">>, <<"t", "s", "p">>, <<"T">>, <<"o", "z">>, <<"e", "g", "g", "s">>}
Rests == {<<"s", "u", "g", "a", "r">>, <<"b", "r", "o", "w", "n", " ", "s", "u", "g", "a", "r">>}

\* quantities and unit tokens of the combined lines
CombinedQtys ==
    {q \in QtyForms : /\ q.form \in {"int", "frac", "mixed"}
                      /\ q.w \in {0, 1, MaxQtyDen} /\ q.a \in {0, 1} /\ q.b \in {1, MaxQtyDen}}
CombinedTokens == {<<>>, <<"c", "u", "p">>, <<"c", "u", "p", "s">>, <<"T", "b", "s", "p">>, <<"t", "s", "p">>}
Joiners == {<<"+">>, <<"a", "n", "d">>}

\* lines without parentheses, the contents of a parenthetical put into
\* them, where it is put, and what follows it at once
ParenBases == {<<"2", " ", "c", "u", "p", "s", " ", "s", "u", "g", "a", "r">>, <<"1", " ", "1", "/", "2", " ", "t", "s", "p", " ", "s", "a", "l", "t">>, <<"s", "a", "l", "t">>, <<"1", "/", "2", " ", "c", "u", "p", " ", "a", "n", "d", " ", "1", " ", "t", "s", "p", " ", "b", "r", "o", "w", "n", " ", "s", "u", "g", "a", "r">>, <<"1", " ", "c", "u", "p", " ", "+", " ", "2", " ", "c", "u", "p", "s", " ", "m", "i", "l", "k">>}
ParenContents == {<<"7", "g">>, <<"2", " ", "l", "a", "r", "g", "e">>, <<"o", "p", "t", "i", "o", "n", "a", "l">>, <<"1", "/", "2", " ", "c", "u", "p">>, <<"(", "a">>}
ParenPlaces == {"front", "middle", "end"}
ParenSeconds == {<<>>, <<"(", "x", ")">>}

Shapes ==
    [kind : {"paren"}, base : ParenBases, content : ParenContents,
     place : ParenPlaces, second : ParenSeconds]
    \cup [kind : {"raw"}, text : LinesUpTo(MaxLineLen)]
    \cup [kind : {"sample"}, index : 1..Len(Samples)]
    \cup [kind : {"plain"}, text : PlainTexts]
    \cup [kind : {"standard"}, qty : QtyForms, sep : {<<>>, <<" ">>},
          unit : StandardTokens, rest : Rests]
    \cup [kind : {"combined"}, q1 : CombinedQtys, u1 : CombinedTokens,
          joiner : Joiners, q2 : CombinedQtys, u2 : CombinedTokens, rest : Rests]

\* what follows the first measurement of a combined line
SecondPart(sh) ==
    sh.joiner \o <<" ">> \o QtyText(sh.q2)
    \o (IF sh.u2 = <<>> THEN <<>> ELSE <<" ">> \o sh.u2)
    \o <<" ">> \o sh.rest

\* the base of a shape with its parenthetical at the front, after the first
\* space or at the end
WithParenthetical(sh, group) ==
    CASE sh.place = "front" -> group \o <<" ">> \o sh.base
      [] sh.place = "middle" ->
            SubSeq(sh.base, 1, IndexOf(sh.base, " ")) \o group \o <<" ">>
            \o Slice(sh.base, IndexOf(sh.base, " "))
      [] sh.place = "end" -> sh.base \o <<" ">> \o group

\* the line of a shape
LineOf(sh) ==
    CASE sh.kind = "raw" -> sh.text
      [] sh.kind = "paren" ->
            WithParenthetical(sh, <<"(">> \o sh.content \o <<")">> \o sh.second)
      [] sh.kind = "sample" -> Samples[sh.index]
      [] sh.kind = "plain" -> sh.text
      [] sh.kind = "standard" ->
            QtyText(sh.qty) \o (IF sh.unit = <<>> THEN <<>> ELSE sh.sep \o sh.unit)
            \o <<" ">> \o sh.rest
      [] sh.kind = "combined" ->
            QtyText(sh.q1) \o (IF sh.u1 = <<>> THEN <<>> ELSE <<" ">> \o sh.u1)
            \o <<" ">> \o SecondPart(sh)

InitParse ==
    /\ pc = "ready"
    /\ fn = "parseIngredientLine"
    /\ shape \in Shapes
    /\ input = LineOf(shape)
    /\ output = NULL
    /\ InitSession

\* one call of parseIngredientLine(input); the clock does not run backwards
\* and idCounter is incremented when an identifier is generated
ParseIngredientLineCall ==
    /\ pc = "ready" /\ fn = "parseIngredientLine"
    /\ \E now \in clock..MaxNow :
          /\ clock' = now
          /\ output' = parseIngredientLine(input, now, idCounter)
    /\ idCounter' = IF output' = NULL THEN idCounter ELSE idCounter + 1
    /\ issued' = IF output' = NULL THEN issued ELSE Append(issued, output'[1].id)
    /\ pc' = "done"
    /\ UNCHANGED <<fn, input, shape, parse, app, hook>>

NextParse == ParseIngredientLineCall

SpecParse == InitParse /\ [][NextParse]_vars

(***************************************************************************)
(* Claims about parseIngredientLine                                        *)
(***************************************************************************)
\* the line has a character that is not whitespace
NonBlank(line) == \E i \in 1..Len(line) : ~IsSpace(line[i])

\* C1 (as stated): parseIngredientLine never returns null for a line that is
\* non-empty and not whitespace-only, one-character lines and lines made
\* only of tags, URLs or checkbox glyphs included.
C1_NeverNullForNonBlank ==
    Returned("parseIngredientLine") /\ NonBlank(input) => output # NULL

\* C1 (amended): parseIngredientLine returns null exactly when the sanitized
\* line has fewer than 2 characters; every other line yields a
\* ParsedIngredient that keeps the sanitized line as original and, when its
\* quantity is null, has a null unit and the sanitized line as ingredient.
C1_NullIffShort ==
    Returned("parseIngredientLine") =>
        LET clean == trim(sanitizeInput(input))
        IN  /\ (output = NULL) <=> (Len(clean) < 2)
            /\ output # NULL => output[1].original = clean
            /\ (output # NULL /\ output[1].quantity = NULL) =>
                   (output[1].unit = NULL /\ output[1].ingredient = clean)

\* the one-character line "a" has been parsed to null
C1_Witness ==
    /\ Returned("parseIngredientLine") /\ shape.kind = "raw"
    /\ input = <<"a">> /\ Len(trim(sanitizeInput(input))) < 2
    /\ output = NULL

\* C2: on a line without combined structure the leading quantity expression
\* (decimal, a/b, w a/b, glyph) becomes quantity, a following token that
\* findUnit recognises becomes unit and the trimmed remainder becomes
\* ingredient; a line without leading quantity has null quantity and unit
\* and the whole line as ingredient.
C2_StandardParsing ==
    Returned("parseIngredientLine") =>
        /\ shape.kind = "standard" =>
              LET key == IF shape.unit = <<>> THEN NULL ELSE findUnit(shape.unit)
              IN  /\ output # NULL
                  /\ output[1].quantity = Some(QtyValue(shape.qty))
                  /\ output[1].unit = key
                  /\ output[1].ingredient =
                        IF key # NULL \/ shape.unit = <<>> THEN shape.rest
                        ELSE shape.unit \o <<" ">> \o shape.rest
        /\ shape.kind = "plain" =>
              /\ output # NULL
              /\ output[1].quantity = NULL
              /\ output[1].unit = NULL
              /\ output[1].ingredient = input

\* a combined line whose two unit tokens resolve to different units
DifferentUnits(sh) ==
    /\ sh.kind = "combined"
    /\ sh.u1 # <<>> /\ sh.u2 # <<>>
    /\ findUnit(sh.u1) # NULL /\ findUnit(sh.u2) # NULL
    /\ findUnit(sh.u1) # findUnit(sh.u2)

\* C3 (as stated): a combined line whose quantities carry different volume
\* units, such as "2 cups + 2 Tbsp sugar", is summed under the first unit
\* after converting the second quantity into it, with the rest as ingredient.
C3_ConvertsSecondUnit ==
    Returned("parseIngredientLine") /\ DifferentUnits(shape) =>
        LET k1 == findUnit(shape.u1)
            k2 == findUnit(shape.u2)
            second == convertUnit(QtyValue(shape.q2), k2[1], k1[1])
        IN  /\ output # NULL
            /\ output[1].unit = k1
            /\ output[1].quantity = Some(NumAdd(QtyValue(shape.q1), second[1]))
            /\ output[1].ingredient = shape.rest

\* C3 (amended): a combined line whose quantities carry different units,
\* such as "2 cups + 2 Tbsp sugar", is not combined: the result has the
\* first quantity alone, the first unit, and everything from the joiner on
\* ("+ 2 Tbsp sugar") as ingredient.
C3_DifferentUnitsNotCombined ==
    Returned("parseIngredientLine") /\ DifferentUnits(shape) =>
        /\ output # NULL
        /\ output[1].quantity = Some(QtyValue(shape.q1))
        /\ output[1].unit = findUnit(shape.u1)
        /\ output[1].ingredient = SecondPart(shape)

\* "2 cups + 2 Tbsp sugar" has been parsed to 2 cup of "+ 2 Tbsp sugar"
C3_Witness ==
    /\ Returned("parseIngredientLine") /\ DifferentUnits(shape)
    /\ input = <<"2", " ", "c", "u", "p", "s", " ", "+", " ", "2", " ", "T", "b", "s", "p", " ", "s", "u", "g", "a", "r">>
    /\ output # NULL
    /\ output[1].quantity = Some(Num(2))
    /\ output[1].unit = Some("cup")
    /\ output[1].ingredient = <<"+", " ", "2", " ", "T", "b", "s", "p", " ", "s", "u", "g", "a", "r">>

\* C4: on a line "q1 [u1] (+|and) q2 [u2] rest" whose quantities parse, when
\* both units resolve to the same key the result has quantity q1+q2 under
\* that unit, and when exactly one side has a unit the result has quantity
\* q1+q2 under that side's unit; in both cases ingredient is the rest.
C4_CombinedResolution ==
    Returned("parseIngredientLine") /\ shape.kind = "combined" =>
        LET k1 == IF shape.u1 = <<>> THEN NULL ELSE findUnit(shape.u1)
            k2 == IF shape.u2 = <<>> THEN NULL ELSE findUnit(shape.u2)
            same == k1 # NULL /\ k1 = k2
            oneSide == \/ k1 # NULL /\ shape.u2 = <<>>
                       \/ shape.u1 = <<>> /\ k2 # NULL
        IN  (same \/ oneSide) =>
                /\ output # NULL
                /\ output[1].quantity =
                       Some(NumAdd(QtyValue(shape.q1), QtyValue(shape.q2)))
                /\ output[1].unit = IF k1 # NULL THEN k1 ELSE k2
                /\ output[1].ingredient = shape.rest

(***************************************************************************)
(* Calls of fractionToDecimal, on its own and on the text formatNumber     *)
(* returns.  The texts parsed are the quantity expressions of              *)
(* FractionForms and every text of up to MaxFracLen characters over        *)
(* FracChars.                                                              *)
(***************************************************************************)
MaxFracLen == 4      \* length of the texts over FracChars
MaxNear == 20        \* the values formatted come within 1/1000 .. MaxNear/1000 of 100

FracChars == {"1", "0", "/", " ", ".", "{1/2}"}

RECURSIVE TextsUpTo(_, _)
TextsUpTo(chars, n) ==
    IF n = 0 THEN {<<>>}
    ELSE TextsUpTo(chars, n - 1)
         \cup {Append(l, c) : l \in TextsUpTo(chars, n - 1), c \in chars}

\* quantity expressions with whole numbers and numerators of one, two and
\* three digits
WideWholes == {0, 1, 12}
WideNums == {0, 1, 3, 10, 15, 120}
FractionForms ==
    QtyForms
    \cup [form : {"int", "dec"}, w : WideWholes, a : {0}, b : {1}, g : {""}]
    \cup [form : {"frac"}, w : {0}, a : WideNums, b : FracDens, g : {""}]
    \cup [form : {"mixed"}, w : WideWholes, a : WideNums, b : FracDens, g : {""}]
    \cup [form : {"wglyph"}, w : WideWholes, a : {0}, b : {1}, g : Glyphs]

FractionShapes ==
    [kind : {"qty"}, qty : FractionForms]
    \cup [kind : {"raw"}, text : TextsUpTo(FracChars, MaxFracLen)]

FractionText(sh) == IF sh.kind = "qty" THEN QtyText(sh.qty) ELSE sh.text

\* the decimals formatted: the multiples of 1/FmtDen up to MaxFmtSteps/FmtDen,
\* the eighths below 100 and the thousandths just below 100
RoundTripValues ==
    (FormatValues \ {Num(0)})
    \cup {Norm(k, 8) : k \in 1..799}
    \cup {Norm(100 * 1000 - j, 1000) : j \in 1..MaxNear}

InitFraction ==
    /\ pc = "ready"
    /\ output = NULL
    /\ InitSession
    /\ \/ /\ fn = "fractionToDecimal"
          /\ shape \in FractionShapes
          /\ input = FractionText(shape)
       \/ /\ fn = "formatNumber"
          /\ shape = [kind |-> "none"]
          /\ input \in [value : RoundTripValues, useFractions : {FALSE}]

FractionToDecimalCall ==
    /\ pc = "ready" /\ fn = "fractionToDecimal"
    /\ output' = fractionToDecimal(input)
    /\ pc' = "done"
    /\ UNCHANGED <<fn, input, shape, clock, idCounter, issued, parse, app, hook>>

\* fractionToDecimal on the text a call of formatNumber has returned
ParseFormattedCall ==
    /\ pc = "done" /\ fn = "formatNumber"
    /\ output' = [text |-> output, parsed |-> fractionToDecimal(output)]
    /\ pc' = "parsed"
    /\ UNCHANGED <<fn, input, shape, clock, idCounter, issued, parse, app, hook>>

NextFraction ==
    \/ FractionToDecimalCall
    \/ FormatNumberCall
    \/ ParseFormattedCall

SpecFraction == InitFraction /\ [][NextFraction]_vars

(***************************************************************************)
(* Claims about fractionToDecimal                                          *)
(***************************************************************************)
\* C11: for every decimal q with 0 < q < 100, fractionToDecimal of
\* formatNumber(q, false) is a number within 0.01 of q; the text has at most
\* 2 fractional digits and no trailing zero.
C11_DecimalRoundTrip ==
    (pc = "parsed" /\ fn = "formatNumber" /\ ~input.useFractions) =>
        LET text == output.text
            dot == IndexOf(text, ".")
        IN  /\ output.parsed # NULL
            /\ IsFinite(output.parsed[1])
            /\ ~NumLess(<<1, 100>>, NumAbs(NumSub(output.parsed[1], input.value)))
            /\ dot > 0 => /\ Len(text) - dot \in {1, 2}
                          /\ text[Len(text)] # "0"

\* 99.999 has been formatted as "100" and parsed back to 100
C11_Witness ==
    /\ pc = "parsed" /\ fn = "formatNumber"
    /\ input.value = <<99999, 1000>>
    /\ output.text = <<"1", "0", "0">>
    /\ output.parsed = Some(Num(100))

\* C12: fractionToDecimal("a/b") = a/b and fractionToDecimal("w a/b") =
\* w + a/b for whole numbers w, a of any number of digits and b > 0; a glyph
\* gives its value, a whole number followed by a glyph their sum, and a
\* plain decimal its numeric value.
C12_FractionValue ==
    (Returned("fractionToDecimal") /\ shape.kind = "qty") =>
        output = Some(QtyValue(shape.qty))

IsDigits(s) == s # <<>> /\ \A i \in 1..Len(s) : IsDigit(s[i])

\* digits, optionally with one dot among them
IsDecimalText(s) ==
    \/ IsDigits(s)
    \/ /\ IndexOf(s, ".") > 0 /\ Len(s) > 1
       /\ \A i \in 1..Len(s) : i # IndexOf(s, ".") => IsDigit(s[i])

\* a/b
IsSlashText(s) ==
    /\ IndexOf(s, "/") > 0
    /\ IsDigits(SubSeq(s, 1, IndexOf(s, "/") - 1))
    /\ IsDigits(Slice(s, IndexOf(s, "/")))

\* w a/b
IsMixedText(s) ==
    /\ RunLen(s, 0, IsDigit) > 0
    /\ RunLen(s, RunLen(s, 0, IsDigit), IsSpace) > 0
    /\ IsSlashText(trim(Slice(s, RunLen(s, 0, IsDigit))))

\* a glyph, optionally after a whole number
IsGlyphText(s) ==
    /\ s # <<>> /\ s[Len(s)] \in Glyphs
    /\ \/ Len(s) = 1
       \/ IsDigits(trim(SubSeq(s, 1, Len(s) - 1)))

\* a/b or w a/b with b = 0
ZeroDenominator(s) ==
    /\ IsSlashText(s) \/ IsMixedText(s)
    /\ DigitsVal(Slice(s, IndexOf(s, "/"))) = 0

\* C13: fractionToDecimal returns null, never NaN, Infinity or a partially
\* parsed number, for every text that is not a plain decimal, a/b, w a/b or
\* a glyph optionally after a whole number, and for every slash fraction
\* with denominator zero.
C13_NullOnMalformed ==
    Returned("fractionToDecimal") =>
        LET s == trim(input)
        IN  (\/ ~(IsDecimalText(s) \/ IsSlashText(s) \/ IsMixedText(s) \/ IsGlyphText(s))
             \/ ZeroDenominator(s))
            => output = NULL

(***************************************************************************)
(* lib/parser.ts: header lines, parseInstructions and parseRecipeText      *)
(***************************************************************************)
\* s without one final ":" (the replacement of /:$/ by '', and the :?$ that
\* ends the header patterns)
WithoutColon(s) ==
    IF s # <<>> /\ s[Len(s)] = ":" THEN SubSeq(s, 1, Len(s) - 1) ELSE s

\* /^ingredients?:?$/i and /^recipe:?$/i
IngredientsHeaderWords ==
    {<<"i", "n", "g", "r", "e", "d", "i", "e", "n", "t">>, <<"i", "n", "g", "r", "e", "d", "i", "e", "n", "t", "s">>, <<"r", "e", "c", "i", "p", "e">>}

isIngredientsHeader(line) ==
    WithoutColon(toLowerCase(trim(line))) \in IngredientsHeaderWords

\* /^(steps?|directions?|instructions?|method|how[- ]?to|procedures?|
\*    preparations?|guide|process):?$/i
InstructionsHeaderWords ==
    {<<"s", "t", "e", "p">>, <<"s", "t", "e", "p", "s">>, <<"d", "i", "r", "e", "c", "t", "i", "o", "n">>, <<"d", "i", "r", "e", "c", "t", "i", "o", "n", "s">>,
     <<"i", "n", "s", "t", "r", "u", "c", "t", "i", "o", "n">>, <<"i", "n", "s", "t", "r", "u", "c", "t", "i", "o", "n", "s">>, <<"m", "e", "t", "h", "o", "d">>,
     <<"h", "o", "w", "t", "o">>, <<"h", "o", "w", "-", "t", "o">>, <<"h", "o", "w", " ", "t", "o">>,
     <<"p", "r", "o", "c", "e", "d", "u", "r", "e">>, <<"p", "r", "o", "c", "e", "d", "u", "r", "e", "s">>, <<"p", "r", "e", "p", "a", "r", "a", "t", "i", "o", "n">>, <<"p", "r", "e", "p", "a", "r", "a", "t", "i", "o", "n", "s">>,
     <<"g", "u", "i", "d", "e">>, <<"p", "r", "o", "c", "e", "s", "s">>}

isInstructionsHeader(line) ==
    WithoutColon(toLowerCase(trim(line))) \in InstructionsHeaderWords

\* /^(cake|frosting|filling|sauce|topping|crust|dough|batter|glaze):?$/i
SubRecipeWords ==
    {<<"c", "a", "k", "e">>, <<"f", "r", "o", "s", "t", "i", "n", "g">>, <<"f", "i", "l", "l", "i", "n", "g">>, <<"s", "a", "u", "c", "e">>, <<"t", "o", "p", "p", "i", "n", "g">>,
     <<"c", "r", "u", "s", "t">>, <<"d", "o", "u", "g", "h">>, <<"b", "a", "t", "t", "e", "r">>, <<"g", "l", "a", "z", "e">>}

\* the two headerPatterns, tested on the lower-cased trimmed line
MatchesHeaderPattern(clean) ==
    \/ StartsWithAt(clean, 0, <<"f", "o", "r", " ", "t", "h", "e", " ">>)
    \/ WithoutColon(clean) \in SubRecipeWords

IsSectionHeaderClean(line, clean) ==
    \/ Len(clean) < 40 /\ clean # <<>> /\ clean[Len(clean)] = ":"
          /\ ~isInstructionsHeader(line)
    \/ MatchesHeaderPattern(clean)

isSectionHeader(line) == IsSectionHeaderClean(line, toLowerCase(trim(line)))

isTopLevelHeader(line) == isIngredientsHeader(line) \/ isInstructionsHeader(line)

\* String.prototype.split(c) for a one-character separator c
RECURSIVE split(_, _)
split(s, c) ==
    IF \A i \in 1..Len(s) : s[i] # c THEN <<s>>
    ELSE <<SubSeq(s, 1, RunLen(s, 0, LAMBDA d : d # c))>>
         \o split(Slice(s, RunLen(s, 0, LAMBDA d : d # c) + 1), c)

\* Array.prototype.join
RECURSIVE join(_, _)
join(parts, sep) ==
    IF parts = <<>> THEN <<>>
    ELSE IF Len(parts) = 1 THEN parts[1]
    ELSE parts[1] \o sep \o join(Tail(parts), sep)

\* .map(l => l.trim()).filter(l => l.length > 0)
RECURSIVE TrimmedNonEmpty(_)
TrimmedNonEmpty(parts) ==
    IF parts = <<>> THEN <<>>
    ELSE IF trim(parts[1]) = <<>> THEN TrimmedNonEmpty(Tail(parts))
    ELSE <<trim(parts[1])>> \o TrimmedNonEmpty(Tail(parts))

\* text.replace(/\r\n/g, '\n').replace(/\r/g, '\n')
RECURSIVE NormalizeLineEndings(_)
NormalizeLineEndings(text) ==
    IF text = <<>> THEN <<>>
    ELSE IF StartsWithAt(text, 0, <<"\r", "\n">>)
         THEN <<"\n">> \o NormalizeLineEndings(Slice(text, 2))
    ELSE IF text[1] = "\r" THEN <<"\n">> \o NormalizeLineEndings(Tail(text))
    ELSE <<text[1]>> \o NormalizeLineEndings(Tail(text))

\* the end of the match of /\n\s*\n/ that starts at index i of s (s[i] is
\* "\n"), or 0: the last "\n" of the whitespace that follows index i
SeparatorEnd(s, i, run) ==
    IF \E j \in (i + 1)..(i + run) : s[j] = "\n"
    THEN CHOOSE j \in (i + 1)..(i + run) :
            s[j] = "\n" /\ \A k \in (j + 1)..(i + run) : s[k] # "\n"
    ELSE 0

\* the start of the leftmost match of /\n\s*\n/ in s, or 0
SeparatorStart(s) ==
    IF \E i \in 1..Len(s) : s[i] = "\n" /\ SeparatorEnd(s, i, RunLen(s, i, IsSpace)) # 0
    THEN CHOOSE i \in 1..Len(s) :
            /\ s[i] = "\n" /\ SeparatorEnd(s, i, RunLen(s, i, IsSpace)) # 0
            /\ \A h \in 1..(i - 1) :
                  ~(s[h] = "\n" /\ SeparatorEnd(s, h, RunLen(s, h, IsSpace)) # 0)
    ELSE 0

\* normalized.split(/\n\s*\n/)
RECURSIVE SplitParagraphs(_)
SplitParagraphsAt(s, i) ==
    IF i = 0 THEN <<s>>
    ELSE <<SubSeq(s, 1, i - 1)>>
         \o SplitParagraphs(Slice(s, SeparatorEnd(s, i, RunLen(s, i, IsSpace))))

SplitParagraphs(s) == SplitParagraphsAt(s, SeparatorStart(s))

\* the length of the match of /^(\d+[.)]\s*|[-{U+2022}]\s*)/ in p, or 0
MarkerLenAfter(p, digits) ==
    IF digits > 0 /\ digits < Len(p) /\ p[digits + 1] \in {".", ")"}
    THEN digits + 1 + RunLen(p, digits + 1, IsSpace)
    ELSE IF p # <<>> /\ p[1] \in {"-", "{U+2022}"} THEN 1 + RunLen(p, 1, IsSpace)
    ELSE 0

MarkerLen(p) == MarkerLenAfter(p, RunLen(p, 0, IsDigit))

\* p.replace(/^(\d+[.)]\s*|[-{U+2022}]\s*)/, '').replace(/\s+/g, ' ').trim()
CleanStep(p) == trim(CollapseWhitespace(Slice(p, MarkerLen(p))))

\* .map(p => cleaned p).filter(p => p.length > 0)
RECURSIVE CleanSteps(_)
CleanSteps(paragraphs) ==
    IF paragraphs = <<>> THEN <<>>
    ELSE IF CleanStep(paragraphs[1]) = <<>> THEN CleanSteps(Tail(paragraphs))
    ELSE <<CleanStep(paragraphs[1])>> \o CleanSteps(Tail(paragraphs))

\* parseInstructions(text)
parseInstructions(text) ==
    CleanSteps(TrimmedNonEmpty(SplitParagraphs(NormalizeLineEndings(text))))

(***************************************************************************)
(* parseRecipeText.  Its locals and the identifier counter are a record    *)
(* st: sections, currentSection, mode, instructionLines, idCounter, and    *)
(* issued (the identifiers generated so far).  A line of the loop calls    *)
(* generateId at most once; now is what Date.now() returns for that call.  *)
(***************************************************************************)
\* idCounter++
NextCounter_reset(counter) == 0
NextCounter(counter) == counter + 1

\* currentSection = { id: generateId(), title, ingredients: [] }
NewSection(st, title, now) ==
    [st EXCEPT !.currentSection =
                   [id |-> generateId(now, st.idCounter), title |-> title,
                    ingredients |-> <<>>],
               !.idCounter = NextCounter(@),
               !.issued = Append(@, generateId(now, st.idCounter))]

\* if (currentSection.ingredients.length > 0) sections.push(currentSection)
PushSection(st) ==
    IF Len(st.currentSection.ingredients) > 0
    THEN [st EXCEPT !.sections = Append(@, st.currentSection)]
    ELSE st

\* the state the parse starts in: lines 250-258
StartParse(now, counter, ids) ==
    NewSection([sections |-> <<>>, currentSection |-> NULL, mode |-> "auto",
                instructionLines |-> <<>>, idCounter |-> counter, issued |-> ids],
               <<>>, now)

\* an instructions header: lines 267-279
InstructionsHeaderLine(st, now) ==
    [(IF Len(st.currentSection.ingredients) > 0
      THEN NewSection(PushSection(st), <<>>, now)
      ELSE st) EXCEPT !.mode = "instructions"]

\* a bug: the title keeps its colon
SectionHeaderLine_keepsColon(st, line, now) == NewSection(PushSection(st), line, now)

\* a section header: lines 288-298
SectionHeaderLine(st, line, now) == NewSection(PushSection(st), WithoutColon(line), now)

\* an ingredient line: lines 301-304
IngredientLine(st, ingredient) ==
    IF ingredient = NULL THEN st
    ELSE [st EXCEPT !.currentSection.ingredients = Append(@, ingredient[1]),
                    !.idCounter = NextCounter(@),
                    !.issued = Append(@, ingredient[1].id)]

\* an ingredients header: lines 262-265
IngredientsHeaderLine(st) == [st EXCEPT !.mode = "ingredients"]

\* a bug: the section headers are looked for before the mode is
RecipeLine_modeLast(st, line, now) ==
    IF isIngredientsHeader(line) THEN IngredientsHeaderLine(st)
    ELSE IF isInstructionsHeader(line) THEN InstructionsHeaderLine(st, now)
    ELSE IF isSectionHeader(line) THEN SectionHeaderLine(st, line, now)
    ELSE IF st.mode = "instructions"
         THEN [st EXCEPT !.instructionLines = Append(@, line)]
    ELSE IngredientLine(st, parseIngredientLine(line, now, st.idCounter))

\* one iteration of the loop over the lines: lines 260-305
RecipeLine(st, line, now) ==
    IF isIngredientsHeader(line) THEN IngredientsHeaderLine(st)
    ELSE IF isInstructionsHeader(line) THEN InstructionsHeaderLine(st, now)
    ELSE IF st.mode = "instructions"
         THEN [st EXCEPT !.instructionLines = Append(@, line)]
    ELSE IF isSectionHeader(line) THEN SectionHeaderLine(st, line, now)
    ELSE IngredientLine(st, parseIngredientLine(line, now, st.idCounter))

\* text.split('\n').map(l => l.trim()).filter(l => l.length > 0)
RecipeLines(text) == TrimmedNonEmpty(split(text, "\n"))

\* the ParsedRecipe returned once the loop has ended: lines 307-322
ReturnRecipe(st) ==
    [sections |-> PushSection(st).sections,
     notes |-> <<>>,
     instructions |-> IF Len(st.instructionLines) > 0
                      THEN parseInstructions(join(st.instructionLines, <<"\n", "\n">>))
                      ELSE <<>>,
     title |-> <<>>]

\* the loop from line i on; times[i + 1] is Date.now() during line i
RECURSIVE ParseLines(_, _, _, _)
ParseLines(st, lines, times, i) ==
    IF i > Len(lines) THEN st
    ELSE ParseLines(RecipeLine(st, lines[i], times[i + 1]), lines, times, i + 1)

\* the locals at the end of parseRecipeText(text), called when idCounter is
\* counter and ids have been issued; times[1] is Date.now() at line 252
ParseRecipe(text, times, counter, ids) ==
    ParseLines(StartParse(times[1], counter, ids), RecipeLines(text), times, 1)

\* parseRecipeText(text)
parseRecipeText(text, times, counter) ==
    ReturnRecipe(ParseRecipe(text, times, counter, <<>>))

(***************************************************************************)
(* One call of parseRecipeText, a line of the loop at a time.  The texts   *)
(* parsed are the scenario of the specification and every text of up to    *)
(* MaxRecipeLines lines drawn from RecipeLinePool.                         *)
(***************************************************************************)
MaxRecipeLines == 3

RecipeLinePool ==
    {<<"I", "n", "g", "r", "e", "d", "i", "e", "n", "t", "s", ":">>, <<"I", "n", "s", "t", "r", "u", "c", "t", "i", "o", "n", "s", ":">>, <<"S", "t", "e", "p", "s">>, <<"F", "o", "r", " ", "t", "h", "e", " ", "c", "r", "u", "s", "t", ":">>,
     <<"F", "r", "o", "s", "t", "i", "n", "g">>, <<"1", " ", "c", "u", "p", " ", "f", "l", "o", "u", "r">>, <<"s", "a", "l", "t">>, <<"x">>, <<>>}

ScenarioText ==
    <<"I", "n", "g", "r", "e", "d", "i", "e", "n", "t", "s", ":", "\n", "F", "o", "r", " ", "t", "h", "e", " ", "c", "r", "u", "s", "t", ":", "\n", "1", " ", "c", "u", "p", " ", "f", "l", "o", "u", "r", "\n", "I", "n", "s", "t", "r", "u", "c", "t", "i", "o", "n", "s", ":", "\n", "M", "i", "x", " ", "w", "e", "l", "l", ".", "\n", "\n", "B", "a", "k", "e", " ", "2", "0", " ", "m", "i", "n", ".">>

SeqsUpTo(S, n) == UNION {[1..k -> S] : k \in 0..n}

RecipeTexts ==
    {join(ls, <<"\n">>) : ls \in SeqsUpTo(RecipeLinePool, MaxRecipeLines)}
    \cup {ScenarioText}

\* the locals kept in the variable parse, with the counter and the
\* identifiers issued, as the record the loop works on
Locals(p, counter, ids) ==
    [sections |-> p.sections, currentSection |-> p.currentSection,
     mode |-> p.mode, instructionLines |-> p.instructionLines,
     idCounter |-> counter, issued |-> ids]

\* the variable parse for the locals st when line next is the next line
Frame(lines, next, st) ==
    [lines |-> lines, next |-> next,
     sections |-> st.sections, currentSection |-> st.currentSection,
     mode |-> st.mode, instructionLines |-> st.instructionLines]

InitRecipe ==
    /\ pc = "ready"
    /\ fn = "parseRecipeText"
    /\ input \in RecipeTexts
    /\ shape = [kind |-> "none"]
    /\ output = NULL
    /\ InitSession

\* the locals st replace the ones in progress; now is what Date.now()
\* returned if an identifier was generated
Advance(lines, next, st, now) ==
    /\ parse' = Frame(lines, next, st)
    /\ idCounter' = st.idCounter
    /\ issued' = st.issued
    /\ clock' = IF st.issued = issued THEN clock ELSE now

\* lines 248-258: the lines are split and the first section is created
ParseRecipeTextBegin ==
    /\ pc = "ready" /\ fn = "parseRecipeText"
    /\ \E now \in clock..MaxNow :
          Advance(RecipeLines(input), 1, StartParse(now, idCounter, issued), now)
    /\ pc' = "loop"
    /\ UNCHANGED <<fn, input, output, shape, app, hook>>

\* lines 260-305: one line of the loop
ParseRecipeTextLine ==
    /\ pc = "loop" /\ parse.next <= Len(parse.lines)
    /\ \E now \in clock..MaxNow :
          Advance(parse.lines, parse.next + 1,
                  RecipeLine(Locals(parse, idCounter, issued),
                             parse.lines[parse.next], now), now)
    /\ UNCHANGED <<fn, input, output, pc, shape, app, hook>>

\* lines 307-322: the last section is pushed and the recipe returned
ParseRecipeTextReturn ==
    /\ pc = "loop" /\ parse.next > Len(parse.lines)
    /\ output' = ReturnRecipe(Locals(parse, idCounter, issued))
    /\ pc' = "done"
    /\ UNCHANGED <<fn, input, shape, clock, idCounter, issued, parse, app, hook>>

NextRecipe ==
    \/ ParseRecipeTextBegin
    \/ ParseRecipeTextLine
    \/ ParseRecipeTextReturn

SpecRecipe == InitRecipe /\ [][NextRecipe]_vars

(***************************************************************************)
(* Claims about parseRecipeText                                            *)
(***************************************************************************)
\* the line the loop is about to handle
CurrentLine == parse.lines[parse.next]

\* a step of the loop
LineStep == pc = "loop" /\ parse # NULL /\ parse' # NULL /\ parse'.next = parse.next + 1

\* a line shorter than 40 characters that ends in ":", or one that matches
\* a sub-recipe header pattern
LooksLikeSectionHeader(line) ==
    \/ Len(line) < 40 /\ line # <<>> /\ line[Len(line)] = ":"
    \/ StartsWithAt(toLowerCase(line), 0, <<"f", "o", "r", " ", "t", "h", "e", " ">>)
    \/ toLowerCase(line) \in SubRecipeWords
    \/ \E w \in SubRecipeWords : toLowerCase(line) = w \o <<":">>

\* the line, with one final colon removed
TitleOf(line) ==
    IF line # <<>> /\ line[Len(line)] = ":" THEN SubSeq(line, 1, Len(line) - 1) ELSE line

\* the sections once the current one has been flushed
Flushed ==
    IF parse.currentSection.ingredients # <<>>
    THEN Append(parse.sections, parse.currentSection)
    ELSE parse.sections

ScenarioResult ==
    /\ Len(output.sections) = 1
    /\ output.sections[1].title = <<"F", "o", "r", " ", "t", "h", "e", " ", "c", "r", "u", "s", "t">>
    /\ Len(output.sections[1].ingredients) = 1
    /\ output.instructions = <<<<"M", "i", "x", " ", "w", "e", "l", "l", ".">>, <<"B", "a", "k", "e", " ", "2", "0", " ", "m", "i", "n", ".">>>>

\* C14: outside the instructions mode, a line that looks like a section
\* header (and is not an ingredients or instructions header) is not parsed
\* as an ingredient: the current section is flushed if it is non-empty and
\* a new, empty section titled with the line less its final colon is
\* started; an ingredients header changes neither the sections nor the
\* current section; and the scenario text yields one section "For the
\* crust" with one ingredient and the instructions "Mix well.", "Bake 20 min."
C14_SectionHeaders ==
    /\ [][(LineStep /\ parse.mode # "instructions") =>
            /\ (LooksLikeSectionHeader(CurrentLine) /\ ~isTopLevelHeader(CurrentLine)) =>
                  /\ parse'.sections = Flushed
                  /\ parse'.currentSection.title = TitleOf(CurrentLine)
                  /\ parse'.currentSection.ingredients = <<>>
                  /\ parse'.currentSection.id # parse.currentSection.id
            /\ isIngredientsHeader(CurrentLine) =>
                  /\ parse'.sections = parse.sections
                  /\ parse'.currentSection = parse.currentSection]_vars
    /\ []((pc = "done" /\ input = ScenarioText) => ScenarioResult)

\* the scenario text has been parsed
C14_Witness == pc = "done" /\ input = ScenarioText /\ ScenarioResult

\* an instructions header is among the lines already handled
HeaderSeen == \E i \in 1..(parse.next - 1) : isInstructionsHeader(parse.lines[i])

\* the line is buffered and adds neither an ingredient nor a section
Buffered ==
    /\ parse'.instructionLines = Append(parse.instructionLines, CurrentLine)
    /\ parse'.sections = parse.sections
    /\ parse'.currentSection = parse.currentSection

HasInstructionsHeader(text) ==
    \E i \in 1..Len(RecipeLines(text)) : isInstructionsHeader(RecipeLines(text)[i])

\* C15 as stated: every line after an instructions header is buffered
C15_ModeSwitch ==
    /\ [][(LineStep /\ HeaderSeen) => Buffered]_vars
    /\ []((pc = "done" /\ output.instructions # <<>>) => HasInstructionsHeader(input))

\* C15: while the mode is "instructions" every line that is not itself an
\* ingredients or instructions header is buffered as instruction text,
\* adds neither an ingredient nor a section and leaves the mode as it is;
\* the mode is "instructions" only after an instructions header; and the
\* instructions returned are non-empty only if the text has such a header
C15_BufferedInInstructionsMode ==
    /\ [][(LineStep /\ parse.mode = "instructions" /\ ~isTopLevelHeader(CurrentLine)) =>
            (Buffered /\ parse'.mode = "instructions")]_vars
    /\ []((parse # NULL /\ parse.mode = "instructions") => HeaderSeen)
    /\ []((pc = "done" /\ output.instructions # <<>>) => HasInstructionsHeader(input))

\* lines were buffered after the header, and the recipe has both
\* ingredients and instructions
C15_Witness ==
    /\ pc = "done" /\ parse.mode = "instructions"
    /\ Len(parse.instructionLines) > 0
    /\ output.instructions # <<>> /\ output.sections # <<>>

(***************************************************************************)
(* lib/conversion.ts: parseSingleMeasurement and isSingleMeasurement       *)
(***************************************************************************)
\* whether what follows the first k characters of clean is \s*([a-zA-Z.]+\.?)$
UnitToEnd(clean, k, spaces) ==
    /\ k + spaces < Len(clean)
    /\ \A i \in (k + spaces + 1)..Len(clean) : IsUnitChar(clean[i])

\* the length of group 1 in the match of
\* /^([\d\s\/{glyphs}.]+)\s*([a-zA-Z.]+\.?)$/ on clean, or 0: the longest
\* run of quantity characters after which the rest is a unit token
MeasurementQtyLen(clean, run) ==
    IF \E k \in 1..run : UnitToEnd(clean, k, RunLen(clean, k, IsSpace))
    THEN CHOOSE k \in 1..run :
            /\ UnitToEnd(clean, k, RunLen(clean, k, IsSpace))
            /\ \A j \in (k + 1)..run : ~UnitToEnd(clean, j, RunLen(clean, j, IsSpace))
    ELSE 0

\* lines 23-29: the two groups are resolved
Measurement(quantity, unit) ==
    IF quantity = NULL \/ unit = NULL THEN NULL
    ELSE Some([quantity |-> quantity[1], unit |-> unit[1]])

MeasurementAt(clean, k) ==
    IF k = 0 THEN NULL
    ELSE Measurement(fractionToDecimal(trim(SubSeq(clean, 1, k))),
                     findUnit(trim(Slice(clean, k + RunLen(clean, k, IsSpace)))))

ParseMeasurementClean(clean) ==
    IF clean = <<>> THEN NULL
    ELSE MeasurementAt(clean, MeasurementQtyLen(clean, RunLen(clean, 0, IsQtyChar)))

\* parseSingleMeasurement(text)
parseSingleMeasurement(text) == ParseMeasurementClean(trim(text))

\* .filter(l => l.trim())
RECURSIVE NonBlankLines(_)
NonBlankLines(parts) ==
    IF parts = <<>> THEN <<>>
    ELSE IF trim(parts[1]) = <<>> THEN NonBlankLines(Tail(parts))
    ELSE <<parts[1]>> \o NonBlankLines(Tail(parts))

IsMeasurementLine(lines) ==
    IF Len(lines) # 1 THEN FALSE ELSE parseSingleMeasurement(lines[1]) # NULL

\* isSingleMeasurement(text)
isSingleMeasurement(text) == IsMeasurementLine(NonBlankLines(split(trim(text), "\n")))

(***************************************************************************)
(* Calls of parseInstructions, parseSingleMeasurement and                  *)
(* isSingleMeasurement.  The texts are the sample texts and every text of  *)
(* up to MaxStepLen characters over StepChars (for parseInstructions) or   *)
(* up to MaxMeasureLen characters over MeasureChars (for the other two).   *)
(***************************************************************************)
MaxStepLen == 4
MaxMeasureLen == 4

StepChars == {"1", ".", "-", " ", "\n", "a", "\r"}
MeasureChars == {"1", "/", ".", " ", "\n", "c", "u", "p"}

StepSamples ==
    {<<"1", ".", " ", "M", "i", "x", "\n", "2", ".", " ", "B", "a", "k", "e">>, <<"M", "i", "x", " ", "w", "e", "l", "l", ".", "\n", "\n", "B", "a", "k", "e", " ", "2", "0", " ", "m", "i", "n", ".">>,
     <<"1", ")", " ", "M", "i", "x", "\r", "\n", "\r", "\n", "{U+2022}", " ", "B", "a", "k", "e", " ", " ", " ", "i", "t", "\n", " ", "\t", "\n", "-", "\n", "\n", "2", ".">>,
     <<"-", " ", "M", "i", "x", "\n", "w", "e", "l", "l", "\n", "-", " ", "B", "a", "k", "e">>, <<"S", "t", "i", "r", "\n", "-", "\n", "S", "e", "r", "v", "e">>}

MeasureSamples ==
    {<<"5", "0", "0", "m", "l">>, <<"1", " ", "1", "/", "2", " ", "T", "b", "s", "p">>, <<"1", " ", "c", "u", "p", " ", "f", "l", "o", "u", "r">>, <<"{1/2}", " ", "t", "s", "p", ".">>, <<"2", " ", "c", "u", "p", "s", "\n">>,
     <<"1", " ", "c", "u", "p", "\n", "2", " ", "c", "u", "p", "s">>, <<"1", "/", "0", " ", "g">>, <<"1", ".", "5", ".", "c", "u", "p">>, <<"c", "u", "p", " ", "1">>, <<"2", " ", "x", "y", "z">>}

InitText ==
    /\ pc = "ready"
    /\ output = NULL
    /\ shape = [kind |-> "none"]
    /\ InitSession
    /\ \/ /\ fn = "parseInstructions"
          /\ input \in TextsUpTo(StepChars, MaxStepLen) \cup StepSamples
       \/ /\ fn \in {"parseSingleMeasurement", "isSingleMeasurement"}
          /\ input \in TextsUpTo(MeasureChars, MaxMeasureLen) \cup MeasureSamples

ParseInstructionsCall ==
    /\ pc = "ready" /\ fn = "parseInstructions"
    /\ output' = parseInstructions(input)
    /\ pc' = "done"
    /\ UNCHANGED <<fn, input, shape, clock, idCounter, issued, parse, app, hook>>

ParseSingleMeasurementCall ==
    /\ pc = "ready" /\ fn = "parseSingleMeasurement"
    /\ output' = parseSingleMeasurement(input)
    /\ pc' = "done"
    /\ UNCHANGED <<fn, input, shape, clock, idCounter, issued, parse, app, hook>>

IsSingleMeasurementCall ==
    /\ pc = "ready" /\ fn = "isSingleMeasurement"
    /\ output' = isSingleMeasurement(input)
    /\ pc' = "done"
    /\ UNCHANGED <<fn, input, shape, clock, idCounter, issued, parse, app, hook>>

NextText ==
    \/ ParseInstructionsCall
    \/ ParseSingleMeasurementCall
    \/ IsSingleMeasurementCall

SpecText == InitText /\ [][NextText]_vars

(***************************************************************************)
(* Claims about parseInstructions                                          *)
(***************************************************************************)
\* the paragraphs of the text: what blank lines delimit
ParagraphsOf(text) == TrimmedNonEmpty(SplitParagraphs(NormalizeLineEndings(text)))

\* the line begins with a numbered marker or a bullet
HasMarker(line) == MarkerLen(line) > 0

\* the line-by-line steps the claim describes: a line with a marker starts a
\* step with the marker removed, any other line is appended to the step in
\* progress after a space
RECURSIVE StepsByLine(_, _, _)
StepsByLine(lines, steps, current) ==
    IF lines = <<>>
    THEN IF current = <<>> THEN steps ELSE Append(steps, current)
    ELSE IF HasMarker(lines[1])
         THEN StepsByLine(Tail(lines),
                          IF current = <<>> THEN steps ELSE Append(steps, current),
                          Slice(lines[1], MarkerLen(lines[1])))
    ELSE StepsByLine(Tail(lines), steps,
                     IF current = <<>> THEN lines[1] ELSE current \o <<" ">> \o lines[1])

\* C18: for a text of a single paragraph the steps are formed line by line:
\* a line that begins with a numbered marker or a bullet starts a step, the
\* marker removed, any other line is appended to the step in progress; and
\* parseInstructions("1. Mix\n2. Bake") = <<"Mix", "Bake">>
C18_Fallback ==
    Returned("parseInstructions") =>
        /\ Len(ParagraphsOf(input)) <= 1 =>
              output = StepsByLine(RecipeLines(NormalizeLineEndings(input)), <<>>, <<>>)
        /\ input = <<"1", ".", " ", "M", "i", "x", "\n", "2", ".", " ", "B", "a", "k", "e">> => output = <<<<"M", "i", "x">>, <<"B", "a", "k", "e">>>>

\* a step is the paragraph without its leading marker, its whitespace
\* collapsed
StepOfParagraph(p) == trim(CollapseWhitespace(Slice(p, MarkerLen(p))))

RECURSIVE NonEmptyStepsOf(_)
NonEmptyStepsOf(paragraphs) ==
    IF paragraphs = <<>> THEN <<>>
    ELSE IF StepOfParagraph(paragraphs[1]) = <<>> THEN NonEmptyStepsOf(Tail(paragraphs))
    ELSE <<StepOfParagraph(paragraphs[1])>> \o NonEmptyStepsOf(Tail(paragraphs))

\* a line that consists of a marker and nothing else
MarkerOnly(line) == line # <<>> /\ MarkerLen(line) = Len(line)

RECURSIVE WithoutMarkerOnly(_)
WithoutMarkerOnly(lines) ==
    IF lines = <<>> THEN <<>>
    ELSE IF MarkerOnly(lines[1]) THEN WithoutMarkerOnly(Tail(lines))
    ELSE <<lines[1]>> \o WithoutMarkerOnly(Tail(lines))

\* the characters of the steps, whitespace apart
RECURSIVE Ink(_)
Ink(steps) ==
    IF steps = <<>> THEN <<>>
    ELSE SelectSeq(steps[1], LAMBDA c : ~IsSpace(c)) \o Ink(Tail(steps))

\* C19: no step returned is empty; when the text has more than one
\* paragraph the steps are the paragraphs, each without its leading marker
\* and with its whitespace collapsed, those left empty dropped; and a line
\* that consists only of a marker is dropped: it leaves no text in the steps
C19_NoEmptyStep ==
    Returned("parseInstructions") =>
        /\ \A i \in 1..Len(output) : output[i] # <<>>
        /\ Len(ParagraphsOf(input)) > 1 => output = NonEmptyStepsOf(ParagraphsOf(input))
        /\ Len(ParagraphsOf(input)) <= 1 =>
              Ink(output) =
                 Ink(parseInstructions(
                        join(WithoutMarkerOnly(RecipeLines(NormalizeLineEndings(input))),
                             <<"\n">>)))

(***************************************************************************)
(* Claims about parseSingleMeasurement and isSingleMeasurement             *)
(***************************************************************************)
\* a quantity expression: a decimal, a/b, w a/b or a glyph optionally after
\* a whole number, the denominator not zero
IsQuantityExpression(s) ==
    /\ IsDecimalText(s) \/ IsSlashText(s) \/ IsMixedText(s) \/ IsGlyphText(s)
    /\ ~ZeroDenominator(s)

\* a unit token that findUnit resolves
IsResolvedUnitToken(s) ==
    /\ s # <<>> /\ \A i \in 1..Len(s) : IsUnitChar(s[i])
    /\ findUnit(s) # NULL

\* the text is a quantity expression, then whitespace (none where the unit
\* follows the quantity at once, as in "500ml"), then one resolved unit
\* token and nothing more
IsMeasurementText(clean) ==
    \E k \in 1..(Len(clean) - 1) :
        /\ IsQuantityExpression(trim(SubSeq(clean, 1, k)))
        /\ IsResolvedUnitToken(trim(Slice(clean, k)))

\* C20: parseSingleMeasurement(text) is non-null only if the whole trimmed
\* text is a quantity expression, whitespace and one unit token that
\* findUnit resolves, with nothing after it; and isSingleMeasurement(text)
\* is true iff the trimmed text has exactly one non-empty line and
\* parseSingleMeasurement of that line is non-null
C20_SingleMeasurement ==
    /\ (Returned("parseSingleMeasurement") /\ output # NULL) =>
            IsMeasurementText(trim(input))
    /\ Returned("isSingleMeasurement") =>
            (output <=>
                /\ Len(NonBlankLines(split(trim(input), "\n"))) = 1
                /\ parseSingleMeasurement(NonBlankLines(split(trim(input), "\n"))[1]) # NULL)

(***************************************************************************)
(* pages/Index.tsx: the handlers that change the recipe, each one step.     *)
(***************************************************************************)
MaxIds == 4          \* no handler runs that would take idCounter beyond MaxIds

\* what Date.now() returns to n successive calls, the first not before from
Times(from, n) ==
    {t \in [1..n -> from..MaxNow] : \A i \in 1..(n - 1) : t[i] <= t[i + 1]}

\* sections.map(section => section.id === sectionId ? change(section) : section)
\* for the change of one ingredient: ingredients.map(ing => ...)
InSection(sections, sectionId, ingredients) ==
    [i \in 1..Len(sections) |->
        IF sections[i].id = sectionId
        THEN [sections[i] EXCEPT !.ingredients = ingredients[i]]
        ELSE sections[i]]

\* .filter(section => section.ingredients.length > 0)
RECURSIVE NonEmptySections(_)
NonEmptySections(sections) ==
    IF sections = <<>> THEN <<>>
    ELSE IF Len(sections[1].ingredients) > 0
         THEN <<sections[1]>> \o NonEmptySections(Tail(sections))
    ELSE NonEmptySections(Tail(sections))

\* ingredients.filter(ing => ing.id !== ingredientId)
WithoutIngredient(ingredients, ingredientId) ==
    SelectSeq(ingredients, LAMBDA ing : ing.id # ingredientId)

\* a bug: the sections left empty are kept
DeleteIngredient_keepsEmpty(sections, sectionId, ingredientId) ==
    InSection(sections, sectionId,
              [i \in 1..Len(sections) |->
                  WithoutIngredient(sections[i].ingredients, ingredientId)])

\* the sections handleDeleteIngredient sets: lines 167-176
DeleteIngredient(sections, sectionId, ingredientId) ==
    NonEmptySections(
        InSection(sections, sectionId,
                  [i \in 1..Len(sections) |->
                      WithoutIngredient(sections[i].ingredients, ingredientId)]))

\* { ...ing, checked: !ing.checked } for the ingredient named
ToggleIn(ingredients, ingredientId) ==
    [j \in 1..Len(ingredients) |->
        IF ingredients[j].id = ingredientId
        THEN [ingredients[j] EXCEPT !.checked = ~@]
        ELSE ingredients[j]]

\* !ing.quantity: null, 0 or NaN
NoQuantity(quantity) == quantity = NULL \/ quantity[1] = Num(0) \/ IsNaN(quantity[1])

\* a bug: the unit requested is stored although nothing was converted
ConvertedTo_unchecked(ing, converted, newUnit) ==
    [ing EXCEPT !.quantity = converted, !.unit = Some(newUnit)]

\* lines 147-156: the ingredient after a change of unit
ConvertedTo(ing, converted, newUnit) ==
    IF converted = NULL THEN ing
    ELSE [ing EXCEPT !.quantity = converted, !.unit = Some(newUnit)]

ChangeUnitOf(ing, ingredientId, newUnit) ==
    IF ing.id # ingredientId \/ ing.unit = NULL \/ NoQuantity(ing.quantity) THEN ing
    ELSE ConvertedTo(ing, convertUnit(ing.quantity[1], ing.unit[1], newUnit), newUnit)

ChangeUnitIn(ingredients, ingredientId, newUnit) ==
    [j \in 1..Len(ingredients) |-> ChangeUnitOf(ingredients[j], ingredientId, newUnit)]

\* { ...parsed, id: ingredientId, checked: ing.checked } for the ingredient named
UpdateIn(ingredients, ingredientId, parsed) ==
    [j \in 1..Len(ingredients) |->
        IF ingredients[j].id = ingredientId
        THEN [parsed EXCEPT !.id = ingredientId, !.checked = ingredients[j].checked]
        ELSE ingredients[j]]

\* lines.map(line => parseIngredientLine(line)).filter(Boolean), with the
\* counter and the identifiers issued; times[i] is Date.now() during line i
RECURSIVE NewIngredients(_, _, _, _)
NewIngredients(st, lines, times, i) ==
    IF i > Len(lines) THEN st
    ELSE NewIngredients(
            IngredientLine(st, parseIngredientLine(lines[i], times[i], st.idCounter)),
            lines, times, i + 1)

ParseNewIngredients(lines, times, counter, ids) ==
    NewIngredients([sections |-> <<>>,
                    currentSection |-> [id |-> <<>>, title |-> <<>>, ingredients |-> <<>>],
                    mode |-> "auto", instructionLines |-> <<>>,
                    idCounter |-> counter, issued |-> ids],
                   lines, times, 1)

\* `section_${Date.now()}`
SectionId(now) == <<"s", "e", "c", "t", "i", "o", "n", "_">> \o IntToText(now)

\* lines 364-380: the sections once newIngredients have been added
AddIngredients(sections, newIngredients, now) ==
    IF Len(sections) = 0
    THEN <<[id |-> SectionId(now), title |-> <<>>, ingredients |-> newIngredients]>>
    ELSE [sections EXCEPT ![Len(sections)].ingredients = @ \o newIngredients]

\* the texts pasted or dropped, typed into the add field, typed over an
\* ingredient, and the unit strings requested: two keys of UNITS, an alias
\* that is not a key and a property inherited from Object.prototype
AppTexts == {<<"1", " ", "c", "u", "p", " ", "f", "l", "o", "u", "r", "\n", "F", "r", "o", "s", "t", "i", "n", "g", "\n", "s", "a", "l", "t">>, <<"F", "r", "o", "s", "t", "i", "n", "g", ":", "\n", "x">>}
AddTexts == {<<"s", "a", "l", "t", "\n", "x">>, <<" ">>}
UpdateTexts == {<<"2", " ", "c", "u", "p", "s", " ", "m", "i", "l", "k", " ", "(", "4", "8", "0", "m", "l", ")">>, <<"x">>}
NewUnits == {"ml", "piece", "cups", "constructor"}

InitApp ==
    /\ pc = "ready"
    /\ fn = "Index"
    /\ input = NULL
    /\ output = NULL
    /\ shape = [kind |-> "none"]
    /\ InitSession

\* the texts received by the page whose calls are traced: two single
\* measurements, a recipe of two ingredients and a text without ingredient
PageTexts == {<<"1", " ", "c", "u", "p">>, <<"5", "0", "0", "m", "l">>, <<"0", "/", "0", " ", "c", "u", "p", " ", "x", "\n", "2", " ", "c", "u", "p", "s", " ", "m", "i", "l", "k">>, <<"x">>}

\* in a traced session the page records the handler called last and its
\* arguments, so that a step can be compared with the call that made it
Traced == shape.kind = "traced"

Called(name, args) ==
    IF Traced THEN fn' = name /\ input' = args ELSE UNCHANGED <<fn, input>>

ReceivedTexts == IF Traced THEN PageTexts ELSE AppTexts

\* the parser's counter, the identifiers issued and the clock after a
\* handler has called the parser
ParserAdvances(st, times) ==
    /\ idCounter' = st.idCounter
    /\ issued' = st.issued
    /\ clock' = times[Len(times)]

\* a bug: a single measurement resets the scale as a recipe does
HandleTextReceivedAs_resetsScale(text, st, times) ==
    IF isSingleMeasurement(text) /\ parseSingleMeasurement(text) # NULL
    THEN /\ app' = [app EXCEPT !.conversionInput = parseSingleMeasurement(text)[1],
                               !.scale = Num(1),
                               !.isConversionMode = TRUE,
                               !.showConversionPreview = FALSE]
         /\ UNCHANGED <<clock, idCounter, issued>>
    ELSE /\ app' = [app EXCEPT !.recipe = ReturnRecipe(st),
                               !.scale = Num(1),
                               !.isConversionMode = FALSE,
                               !.showConversionPreview = FALSE]
         /\ ParserAdvances(st, times)

\* lines 92-110
HandleTextReceivedAs(text, st, times) ==
    IF isSingleMeasurement(text) /\ parseSingleMeasurement(text) # NULL
    THEN /\ app' = [app EXCEPT !.conversionInput = parseSingleMeasurement(text)[1],
                               !.isConversionMode = TRUE,
                               !.showConversionPreview = FALSE]
         /\ UNCHANGED <<clock, idCounter, issued>>
    ELSE /\ app' = [app EXCEPT !.recipe = ReturnRecipe(st),
                               !.scale = Num(1),
                               !.isConversionMode = FALSE,
                               !.showConversionPreview = FALSE]
         /\ ParserAdvances(st, times)

HandleTextReceived ==
    /\ pc = "ready"
    /\ \E text \in ReceivedTexts :
          /\ idCounter + Len(RecipeLines(text)) + 1 <= MaxIds
          /\ \E times \in Times(clock, Len(RecipeLines(text)) + 1) :
                HandleTextReceivedAs(text, ParseRecipe(text, times, idCounter, issued), times)
          /\ Called("handleTextReceived", text)
    /\ UNCHANGED <<output, pc, shape, parse, hook>>

\* the section and the ingredient the user points at
Shown ==
    {<<s, j>> : s \in 1..Len(app.recipe.sections), j \in 1..3}
        \cap {sj \in (1..Len(app.recipe.sections)) \X (1..3) :
                 sj[2] <= Len(app.recipe.sections[sj[1]].ingredients)}

SectionIdAt(sj) == app.recipe.sections[sj[1]].id
IngredientIdAt(sj) == app.recipe.sections[sj[1]].ingredients[sj[2]].id

\* lines 123-137
HandleToggleIngredient ==
    /\ \E sj \in Shown :
          /\ app' = [app EXCEPT !.recipe.sections =
                        InSection(@, SectionIdAt(sj),
                                  [i \in 1..Len(@) |->
                                      ToggleIn(@[i].ingredients, IngredientIdAt(sj))])]
    /\ UNCHANGED <<fn, input, output, pc, shape, clock, idCounter, issued, parse, hook>>

\* lines 139-162
HandleChangeUnit ==
    /\ pc = "ready"
    /\ \E sj \in Shown, newUnit \in NewUnits :
          /\ app' = [app EXCEPT !.recipe.sections =
                        InSection(@, SectionIdAt(sj),
                                  [i \in 1..Len(@) |->
                                      ChangeUnitIn(@[i].ingredients, IngredientIdAt(sj),
                                                   newUnit)])]
          /\ Called("handleChangeUnit",
                    [sectionId |-> SectionIdAt(sj), ingredientId |-> IngredientIdAt(sj),
                     newUnit |-> newUnit])
    /\ UNCHANGED <<output, pc, shape, clock, idCounter, issued, parse, hook>>

\* lines 164-178
HandleDeleteIngredient ==
    /\ \E sj \in Shown :
          /\ app' = [app EXCEPT !.recipe.sections =
                        DeleteIngredient(@, SectionIdAt(sj), IngredientIdAt(sj))]
    /\ UNCHANGED <<fn, input, output, pc, shape, clock, idCounter, issued, parse, hook>>

\* lines 200-217
HandleUpdateIngredientAs(sj, parsed) ==
    IF parsed = NULL THEN UNCHANGED <<app, idCounter, issued>>
    ELSE /\ app' = [app EXCEPT !.recipe.sections =
                        InSection(@, SectionIdAt(sj),
                                  [i \in 1..Len(@) |->
                                      UpdateIn(@[i].ingredients, IngredientIdAt(sj),
                                               parsed[1])])]
         /\ idCounter' = NextCounter(idCounter)
         /\ issued' = Append(issued, parsed[1].id)

HandleUpdateIngredient ==
    /\ idCounter + 1 <= MaxIds
    /\ \E sj \in Shown, newText \in UpdateTexts, now \in clock..MaxNow :
          /\ clock' = now
          /\ HandleUpdateIngredientAs(sj, parseIngredientLine(newText, now, idCounter))
    /\ UNCHANGED <<fn, input, output, pc, shape, parse, hook>>

\* lines 345-351
HandleClearRecipe ==
    /\ pc = "ready"
    /\ app' = [app EXCEPT !.recipe = EmptyRecipe, !.scale = Num(1),
                          !.isConversionMode = FALSE, !.showConversionPreview = TRUE]
    /\ Called("handleClearRecipe", NULL)
    /\ UNCHANGED <<output, pc, shape, clock, idCounter, issued, parse, hook>>

\* lines 363-383
HandleAddIngredientAs(st, times) ==
    /\ app' = IF Len(st.currentSection.ingredients) = 0 THEN app
              ELSE [app EXCEPT !.recipe.sections =
                        AddIngredients(@, st.currentSection.ingredients,
                                       times[Len(times)])]
    /\ ParserAdvances(st, times)

HandleAddIngredient ==
    /\ \E text \in AddTexts :
          /\ idCounter + Len(NonBlankLines(split(text, "\n"))) <= MaxIds
          /\ \E times \in Times(clock, Len(NonBlankLines(split(text, "\n"))) + 1) :
                HandleAddIngredientAs(
                    ParseNewIngredients(NonBlankLines(split(text, "\n")), times,
                                        idCounter, issued),
                    times)
    /\ UNCHANGED <<fn, input, output, pc, shape, parse, hook>>

NextApp ==
    \/ HandleTextReceived
    \/ HandleToggleIngredient
    \/ HandleChangeUnit
    \/ HandleDeleteIngredient
    \/ HandleUpdateIngredient
    \/ HandleClearRecipe
    \/ HandleAddIngredient

SpecApp == InitApp /\ [][NextApp]_vars

(***************************************************************************)
(* Claims about the recipe of the page and the identifiers                 *)
(***************************************************************************)
\* C16: no section of the recipe has zero ingredients, after parseRecipeText
\* and after any sequence of parse, add, delete, toggle, change-unit and
\* update operations (a section emptied by a deletion is removed)
C16_NoEmptySections ==
    \A s \in 1..Len(app.recipe.sections) :
        Len(app.recipe.sections[s].ingredients) > 0

\* the only ingredient of the first of two parsed sections has been deleted
\* and the section has gone with it
C16_Witness ==
    /\ Len(issued) = 4
    /\ Len(app.recipe.sections) = 1
    /\ app.recipe.sections[1].title = <<"F", "r", "o", "s", "t", "i", "n", "g">>
    /\ Len(app.recipe.sections[1].ingredients) = 1

\* the identifiers of the sections and of the ingredients of a recipe
RECURSIVE IdsOf(_)
IdsOf(sections) ==
    IF sections = <<>> THEN <<>>
    ELSE <<sections[1].id>>
         \o [j \in 1..Len(sections[1].ingredients) |-> sections[1].ingredients[j].id]
         \o IdsOf(Tail(sections))

PairwiseDistinct(ids) ==
    \A i \in 1..Len(ids) : \A j \in 1..Len(ids) : i # j => ids[i] # ids[j]

\* C17: the identifier counter grows by one with every identifier generated
\* and never goes back, so no two identifiers generated by the calls of
\* parseRecipeText and parseIngredientLine of a session are equal, and the
\* identifiers inside the recipe are pairwise distinct
C17_UniqueIds ==
    /\ [](PairwiseDistinct(issued) /\ PairwiseDistinct(IdsOf(app.recipe.sections)))
    /\ [][/\ idCounter' >= idCounter
          /\ idCounter' - idCounter = Len(issued') - Len(issued)
          /\ SubSeq(issued', 1, Len(issued)) = issued]_vars

\* identifiers have been generated by two calls of the parser at the same
\* reading of the clock
C17_Witness ==
    /\ Len(issued) = 4 /\ clock = 0
    /\ Len(app.recipe.sections) = 1
    /\ app.recipe.sections[1].id = SectionId(0)
    /\ Len(app.recipe.sections[1].ingredients) = 2

(***************************************************************************)
(* Claims about the units held by the recipe and about the change of unit  *)
(***************************************************************************)
\* the ingredients of the recipe of the page, section after section
RECURSIVE IngredientsOf(_)
IngredientsOf(sections) ==
    IF sections = <<>> THEN <<>>
    ELSE sections[1].ingredients \o IngredientsOf(Tail(sections))

IsUnitKey(key) == \E k \in 1..Len(UnitKeys) : UnitKeys[k] = key

ValidUnits(ing) ==
    /\ ing.unit # NULL => IsUnitKey(ing.unit[1])
    /\ ing.parentheticalUnit # NULL => IsUnitKey(ing.parentheticalUnit[1])

\* C21: in every ParsedIngredient parseIngredientLine returns and in every
\* recipe reached by parse, add-ingredient, update-ingredient and change-unit
\* operations, whatever unit string is requested, a unit and a
\* parentheticalUnit that are not null are keys of the UNITS table
C21_UnitValidity ==
    /\ Returned("parseIngredientLine") /\ output # NULL => ValidUnits(output[1])
    /\ \A j \in 1..Len(IngredientsOf(app.recipe.sections)) :
          ValidUnits(IngredientsOf(app.recipe.sections)[j])

\* "2 cups milk (480ml)" was typed over an ingredient and its unit changed to
\* ml: both units are held and both are keys
C21_Witness ==
    \E j \in 1..Len(IngredientsOf(app.recipe.sections)) :
        LET ing == IngredientsOf(app.recipe.sections)[j]
        IN  /\ ing.original = <<"2", " ", "c", "u", "p", "s", " ", "m", "i", "l", "k", " ", "(", "4", "8", "0", "m", "l", ")">>
            /\ ing.unit = Some("ml")
            /\ ing.quantity = Some(convertUnit(Num(2), "cup", "ml")[1])
            /\ ing.parentheticalUnit = Some("ml")

(***************************************************************************)
(* lib/state.ts: the recipe, the scale and the fraction flag in the URL    *)
(* hash.  JSON.stringify writes a number that is not finite as null; the   *)
(* text it returns, percent-encoded and base64-encoded, is the hash.  Both *)
(* encodings are reversed exactly by decodeURIComponent and atob (the      *)
(* characters of the recipes are not surrogates), so a hash made by        *)
(* encodeRecipeToHash is held as the document JSON.parse reads back from   *)
(* it; any other hash is held as its text.                                 *)
(***************************************************************************)
\* a number as JSON.parse(JSON.stringify(x)) returns it
JsonNumber(x) == IF IsFinite(x) THEN Some(x) ELSE NULL

\* a number or null as JSON.parse(JSON.stringify(x)) returns it
JsonNullableNumber(x) == IF x = NULL THEN NULL ELSE JsonNumber(x[1])

\* lines 81-92: an ingredient of the state object, in the document
EncodedIngredient(ing) ==
    [id |-> ing.id, o |-> ing.original, q |-> JsonNullableNumber(ing.quantity),
     u |-> ing.unit, n |-> ing.ingredient, p |-> ing.parenthetical,
     pq |-> JsonNullableNumber(ing.parentheticalQuantity),
     pu |-> ing.parentheticalUnit, c |-> ing.checked, fr |-> ing.isFraction]

\* lines 78-93: a section of the state object, in the document
EncodedSection(section) ==
    [id |-> section.id, t |-> section.title,
     i |-> [j \in 1..Len(section.ingredients) |->
               EncodedIngredient(section.ingredients[j])]]

\* lines 75-96: the state object as JSON.stringify writes it
EncodedState(recipe, scale, useFractions) ==
    [v |-> 1, s |-> JsonNumber(scale), f |-> useFractions,
     sections |-> [k \in 1..Len(recipe.sections) |-> EncodedSection(recipe.sections[k])],
     n |-> recipe.notes, inst |-> recipe.instructions]

\* encodeRecipeToHash(recipe, scale, useFractions)
encodeRecipeToHash(recipe, scale, useFractions) ==
    [kind |-> "encoded", json |-> EncodedState(recipe, scale, useFractions)]

\* lines 120-131: an ingredient read from the document
DecodedIngredient(ing) ==
    [id |-> ing.id, original |-> ing.o, quantity |-> ing.q, unit |-> ing.u,
     ingredient |-> ing.n, parenthetical |-> ing.p, parentheticalQuantity |-> ing.pq,
     parentheticalUnit |-> ing.pu, checked |-> ing.c, isFraction |-> ing.fr]

\* lines 117-132: a section read from the document
DecodedSection(section) ==
    [id |-> section.id, title |-> section.t,
     ingredients |-> [j \in 1..Len(section.i) |-> DecodedIngredient(section.i[j])]]

\* lines 116-135: the recipe read from the document; it has no title
DecodedRecipe(state) ==
    [sections |-> [k \in 1..Len(state.sections) |-> DecodedSection(state.sections[k])],
     notes |-> state.n,
     instructions |-> state.inst]

\* decodeRecipeFromHash(hash): null for a hash shorter than 10 characters,
\* for one that atob, decodeURIComponent or JSON.parse reject and for a
\* version other than 1; state.s || 1 is 1 for null and for 0
decodeRecipeFromHash(hash) ==
    IF hash.kind = "text" THEN NULL
    ELSE IF hash.json.v # 1 THEN NULL
    ELSE Some([recipe |-> DecodedRecipe(hash.json),
               scale |-> IF hash.json.s = NULL \/ hash.json.s[1] = Num(0)
                         THEN Num(1) ELSE hash.json.s[1],
               useFractions |-> hash.json.f # FALSE])

(***************************************************************************)
(* A recipe is encoded and the hash decoded.  The recipes are parsed from  *)
(* HashTexts and given a title and notes.                                  *)
(***************************************************************************)
HashTexts == {<<"1", " ", "c", "u", "p", " ", "f", "l", "o", "u", "r", "\n", "F", "r", "o", "s", "t", "i", "n", "g", "\n", "s", "a", "l", "t">>, <<"1", " ", "1", "/", "2", " ", "t", "s", "p", " ", "s", "a", "l", "t", " ", "(", "7", "g", ")">>, <<"1", "/", "0", " ", "c", "u", "p", " ", "x">>, <<"S", "t", "e", "p", "s", "\n", "M", "i", "x">>, <<>>}
HashTitles == {<<>>, <<"C", "a", "k", "e">>}
HashNotes == {<<>>, <<"x">>}
HashScales == {Norm(1, 4), Num(1), Num(2)}

HashRecipes ==
    {[parseRecipeText(text, [i \in 1..(Len(RecipeLines(text)) + 1) |-> 0], 0)
         EXCEPT !.title = title, !.notes = notes] :
        text \in HashTexts, title \in HashTitles, notes \in HashNotes}

\* fragments of a URL that encodeRecipeToHash did not make
ForeignHashes == {[kind |-> "text", text |-> <<>>], [kind |-> "text", text |-> <<"t", "o", "p">>]}

InitHash ==
    /\ pc = "ready"
    /\ \/ /\ fn = "encodeRecipeToHash"
          /\ input \in [recipe : HashRecipes, scale : HashScales, useFractions : BOOLEAN]
       \/ /\ fn = "decodeRecipeFromHash"
          /\ input \in ForeignHashes
    /\ output = NULL
    /\ shape = [kind |-> "none"]
    /\ InitSession

EncodeRecipeToHashCall ==
    /\ pc = "ready" /\ fn = "encodeRecipeToHash"
    /\ output' = encodeRecipeToHash(input.recipe, input.scale, input.useFractions)
    /\ pc' = "encoded"
    /\ UNCHANGED <<fn, input, shape, clock, idCounter, issued, parse, app, hook>>

\* the hash made by encodeRecipeToHash, or a foreign fragment, is decoded
DecodeRecipeFromHashCall ==
    /\ \/ pc = "encoded" /\ output' = decodeRecipeFromHash(output)
       \/ pc = "ready" /\ fn = "decodeRecipeFromHash"
          /\ output' = decodeRecipeFromHash(input)
    /\ pc' = "done"
    /\ UNCHANGED <<fn, input, shape, clock, idCounter, issued, parse, app, hook>>

NextHash ==
    \/ EncodeRecipeToHashCall
    \/ DecodeRecipeFromHashCall

SpecHash == InitHash /\ [][NextHash]_vars

\* C22: decodeRecipeFromHash(encodeRecipeToHash(r, s, f)) is not null and
\* returns a recipe equal to r in every field of the data model, the title
\* included, together with the same s and f
C22_HashRoundTrip ==
    Returned("encodeRecipeToHash") =>
        /\ output # NULL
        /\ output[1].recipe = input.recipe
        /\ output[1].scale = input.scale
        /\ output[1].useFractions = input.useFractions

\* what the round trip keeps: every field but the title, when no quantity
\* is infinite or NaN
FiniteQuantities(recipe) ==
    \A j \in 1..Len(IngredientsOf(recipe.sections)) :
        LET ing == IngredientsOf(recipe.sections)[j]
        IN  /\ ing.quantity # NULL => IsFinite(ing.quantity[1])
            /\ ing.parentheticalQuantity # NULL => IsFinite(ing.parentheticalQuantity[1])

HashKeepsAllButTitle ==
    Returned("encodeRecipeToHash") /\ FiniteQuantities(input.recipe) =>
        /\ output # NULL
        /\ DOMAIN output[1].recipe = {"sections", "notes", "instructions"}
        /\ output[1].recipe.sections = input.recipe.sections
        /\ output[1].recipe.notes = input.recipe.notes
        /\ output[1].recipe.instructions = input.recipe.instructions
        /\ output[1].scale = input.scale
        /\ output[1].useFractions = input.useFractions

(***************************************************************************)
(* Claims about combined quantities, unit tokens and parentheticals        *)
(***************************************************************************)
\* the text parseIngredientLine parses once the parentheticals are removed
MainText(line) == trim(RemoveParens(trim(sanitizeInput(line))))

\* the line matches the combined pattern and its two unit tokens resolve to
\* different keys
ResolvesToDifferentUnits(line) ==
    /\ CombinedMatch(MainText(line)) # NULL
    /\ UnitOfGroup(CombinedMatch(MainText(line))[1].unit1Str) # NULL
    /\ UnitOfGroup(CombinedMatch(MainText(line))[1].unit2Str) # NULL
    /\ UnitOfGroup(CombinedMatch(MainText(line))[1].unit1Str)
           # UnitOfGroup(CombinedMatch(MainText(line))[1].unit2Str)

\* C23: when a line matches the combined pattern and both unit tokens resolve
\* to different unit keys, parseIngredientLine returns what standard parsing
\* of the whole main text returns: the quantities are not summed, and the
\* joiner and the second measurement stay in the ingredient description
C23_FallThrough ==
    Returned("parseIngredientLine") /\ ResolvesToDifferentUnits(input) =>
        LET std == parseQuantityAndUnit(MainText(input))
        IN  /\ output # NULL
            /\ IF std = NULL
               THEN /\ output[1].quantity = NULL
                    /\ output[1].unit = NULL
                    /\ output[1].isFraction = FALSE
               ELSE /\ output[1].quantity = Some(std[1].quantity)
                    /\ output[1].unit = std[1].unit
                    /\ output[1].ingredient = std[1].rest
                    /\ output[1].isFraction = std[1].isFraction
            /\ shape.kind = "combined" =>
                  /\ output[1].quantity = Some(QtyValue(shape.q1))
                  /\ output[1].ingredient = SecondPart(shape)

\* "1/2 cup and 1 tsp brown sugar" has been parsed to 1/2 cup of
\* "and 1 tsp brown sugar"
C23_Witness ==
    /\ Returned("parseIngredientLine") /\ ResolvesToDifferentUnits(input)
    /\ input = <<"1", "/", "2", " ", "c", "u", "p", " ", "a", "n", "d", " ", "1", " ", "t", "s", "p", " ", "b", "r", "o", "w", "n", " ", "s", "u", "g", "a", "r">>
    /\ output # NULL
    /\ output[1].quantity = Some(Norm(1, 2))
    /\ output[1].unit = Some("cup")
    /\ output[1].ingredient = <<"a", "n", "d", " ", "1", " ", "t", "s", "p", " ", "b", "r", "o", "w", "n", " ", "s", "u", "g", "a", "r">>

\* the word occurs in the text
OccursIn(word, text) == \E p \in 0..Len(text) : StartsWithAt(text, p, word)

\* a unit group of the combined pattern that holds a word findUnit does not
\* recognise
UnrecognisedGroup(unitStr) == trim(unitStr) # <<>> /\ findUnit(trim(unitStr)) = NULL

\* the word after the leading quantity of the text: the letters and dots
\* that follow the quantity characters and the whitespace after them
WordAfterQuantity(text) ==
    LET afterQty == trim(Slice(text, RunLen(text, 0, IsQtyChar)))
    IN  SubSeq(afterQty, 1, RunLen(afterQty, 0, IsUnitChar))

\* C24: in every result of parseIngredientLine, on the standard path and on
\* the combined-quantity path, a word that follows a quantity and that
\* findUnit does not recognise is not consumed as a unit and still appears
\* in the ingredient description ("eggs" in "2 eggs and 3 tbsp milk")
C24_UnrecognisedKept ==
    Returned("parseIngredientLine") /\ output # NULL =>
        /\ CombinedMatch(MainText(input)) # NULL =>
              /\ UnrecognisedGroup(CombinedMatch(MainText(input))[1].unit1Str) =>
                    OccursIn(trim(CombinedMatch(MainText(input))[1].unit1Str),
                             output[1].ingredient)
              /\ UnrecognisedGroup(CombinedMatch(MainText(input))[1].unit2Str) =>
                    OccursIn(trim(CombinedMatch(MainText(input))[1].unit2Str),
                             output[1].ingredient)
        /\ (/\ RunLen(MainText(input), 0, IsQtyChar) > 0
            /\ output[1].quantity # NULL
            /\ UnrecognisedGroup(WordAfterQuantity(MainText(input)))) =>
              OccursIn(WordAfterQuantity(MainText(input)), output[1].ingredient)

\* on the standard path alone the word is kept
C24_KeptOnStandardPath ==
    Returned("parseIngredientLine") /\ output # NULL
    /\ CombinedMatch(MainText(input)) = NULL
    /\ RunLen(MainText(input), 0, IsQtyChar) > 0
    /\ output[1].quantity # NULL
    /\ UnrecognisedGroup(WordAfterQuantity(MainText(input))) =>
        /\ output[1].unit = NULL
        /\ OccursIn(WordAfterQuantity(MainText(input)), output[1].ingredient)

\* the content of the first "(...)" group of the text, NULL if there is
\* none: clean[i] is the first "(" that is followed by at least one
\* character other than ")" and then by a ")" at j
FirstGroup(clean) ==
    LET groups == {ij \in (1..Len(clean)) \X (1..Len(clean)) :
                      /\ clean[ij[1]] = "(" /\ clean[ij[2]] = ")"
                      /\ ij[2] > ij[1] + 1
                      /\ \A k \in (ij[1] + 1)..(ij[2] - 1) : clean[k] # ")"}
    IN  IF groups = {} THEN NULL
        ELSE LET first == CHOOSE ij \in groups : \A g \in groups : ij[1] <= g[1]
             IN  Some(SubSeq(clean, first[1] + 1, first[2] - 1))

\* C25: the parenthetical field is the verbatim content of the first "(...)"
\* group, null if there is none; parentheticalQuantity and parentheticalUnit
\* come from a quantity and unit parse of that content alone and stay null
\* when it fails; every group is removed before the main parse, so quantity,
\* unit and isFraction are those of the line without its groups, and so is
\* the ingredient of a line with a quantity when the groups stand at the
\* front or at the end
C25_Parenthetical ==
    Returned("parseIngredientLine") /\ output # NULL =>
        LET content == FirstGroup(trim(sanitizeInput(input)))
            inner == IF content = NULL THEN NULL ELSE parseQuantityAndUnit(content[1])
        IN  /\ output[1].parenthetical = content
            /\ output[1].parentheticalQuantity =
                   IF inner = NULL THEN NULL ELSE Some(inner[1].quantity)
            /\ output[1].parentheticalUnit = IF inner = NULL THEN NULL ELSE inner[1].unit
            /\ shape.kind = "paren" =>
                  LET bare == parseIngredientLine(shape.base, 0, 0)[1]
                  IN  /\ content = Some(shape.content)
                      /\ output[1].quantity = bare.quantity
                      /\ output[1].unit = bare.unit
                      /\ output[1].isFraction = bare.isFraction
                      /\ (bare.quantity # NULL /\ shape.place # "middle") =>
                             output[1].ingredient = bare.ingredient

\* "1 1/2 tsp salt (7g)(x)" has been parsed to 1.5 tsp of salt with the
\* parenthetical 7 g
C25_Witness ==
    /\ Returned("parseIngredientLine") /\ shape.kind = "paren"
    /\ input = <<"1", " ", "1", "/", "2", " ", "t", "s", "p", " ", "s", "a", "l", "t", " ", "(", "7", "g", ")", "(", "x", ")">>
    /\ output # NULL
    /\ output[1].quantity = Some(Norm(3, 2))
    /\ output[1].unit = Some("tsp")
    /\ output[1].ingredient = <<"s", "a", "l", "t">>
    /\ output[1].parenthetical = Some(<<"7", "g">>)
    /\ output[1].parentheticalQuantity = Some(Num(7))
    /\ output[1].parentheticalUnit = Some("g")

(***************************************************************************)
(* pages/Index.tsx: the page from its mount on, with the conversion mode.  *)
(* The effects of the mount read the convert parameter and the hash of the *)
(* URL.  The two effects that write the URL (lines 74-90) set no state of  *)
(* the page; they write convert=1 only while the conversion mode is on and *)
(* remove it when the mode is off and there is no recipe.                  *)
(***************************************************************************)
\* searchParams.get('convert'): "" stands for a URL without the parameter
ConvertParams == {"", "1", "true", "0"}

\* lines 49-55
ConvertChecked(a, convertParam) ==
    IF convertParam = "true" \/ convertParam = "1"
    THEN [a EXCEPT !.isConversionMode = TRUE, !.showConversionPreview = FALSE]
    ELSE a

\* { ...decoded.recipe, title }
WithTitle(recipe, title) ==
    [sections |-> recipe.sections, notes |-> recipe.notes,
     instructions |-> recipe.instructions, title |-> title]

\* lines 58-71: if (hash) { const decoded = decodeRecipeFromHash(hash); ... }
HashLoadedAs(a, decoded, title) ==
    IF decoded = NULL THEN a
    ELSE [a EXCEPT !.recipe = WithTitle(decoded[1].recipe, title),
                   !.scale = decoded[1].scale,
                   !.useFractions = decoded[1].useFractions,
                   !.showConversionPreview = FALSE]

HashLoaded(a, hash, title) ==
    IF hash.kind = "text" /\ hash.text = <<>> THEN a
    ELSE HashLoadedAs(a, decodeRecipeFromHash(hash), title)

\* the hashes of the URLs the page is opened with: none, a fragment that is
\* not a recipe, and a recipe shared at scale 2 with decimals
MountHashes ==
    ForeignHashes
    \cup {encodeRecipeToHash(parseRecipeText(<<"2", " ", "c", "u", "p", "s", " ", "m", "i", "l", "k">>, <<0, 0>>, 0), Num(2), FALSE)}

InitPage ==
    /\ pc = "mount"
    /\ fn = "Index"
    /\ input = NULL
    /\ output = NULL
    /\ shape = [kind |-> "traced"]
    /\ InitSession

\* the two effects of the mount
Mount ==
    /\ pc = "mount"
    /\ \E convertParam \in ConvertParams, hash \in MountHashes, title \in HashTitles :
          /\ app' = HashLoaded(ConvertChecked(app, convertParam), hash, title)
          /\ Called("mount", [convert |-> convertParam, hash |-> hash, title |-> title])
    /\ pc' = "ready"
    /\ UNCHANGED <<output, shape, clock, idCounter, issued, parse, hook>>

\* a bug: the preview stays while the conversion mode is on
HandleOpenConversionModeAs_keepsPreview(a) ==
    [a EXCEPT !.isConversionMode = TRUE]

\* lines 398-401
HandleOpenConversionModeAs(a) ==
    [a EXCEPT !.isConversionMode = TRUE, !.showConversionPreview = FALSE]

HandleOpenConversionMode ==
    /\ pc = "ready"
    /\ app' = HandleOpenConversionModeAs(app)
    /\ Called("handleOpenConversionMode", NULL)
    /\ UNCHANGED <<output, pc, shape, clock, idCounter, issued, parse, hook>>

\* lines 393-396
HandleCloseConversionMode ==
    /\ pc = "ready"
    /\ app' = [app EXCEPT !.isConversionMode = FALSE, !.showConversionPreview = TRUE]
    /\ Called("handleCloseConversionMode", NULL)
    /\ UNCHANGED <<output, pc, shape, clock, idCounter, issued, parse, hook>>

NextPage ==
    \/ Mount
    \/ HandleTextReceived
    \/ HandleChangeUnit
    \/ HandleOpenConversionMode
    \/ HandleCloseConversionMode
    \/ HandleClearRecipe

SpecPage == InitPage /\ [][NextPage]_vars

(***************************************************************************)
(* Claims about the handlers of the page                                   *)
(***************************************************************************)
\* where the ingredient addressed by a call of handleChangeUnit is held
AddressedBy(args) ==
    {sj \in Shown : SectionIdAt(sj) = args.sectionId /\ IngredientIdAt(sj) = args.ingredientId}

\* the page after the quantity and the unit of the ingredient at sj, and
\* nothing else, have changed
WithMeasure(sj, quantity, unit) ==
    [app EXCEPT !.recipe.sections[sj[1]].ingredients[sj[2]] =
                    [@ EXCEPT !.quantity = quantity, !.unit = unit]]

\* the step the claim describes for a quantity that counts as present
ChangeUnitStep(args, present(_)) ==
    \A sj \in AddressedBy(args) :
        LET ing == app.recipe.sections[sj[1]].ingredients[sj[2]]
        IN  IF /\ ing.unit # NULL
               /\ present(ing.quantity)
               /\ convertUnit(ing.quantity[1], ing.unit[1], args.newUnit) # NULL
            THEN app' = WithMeasure(sj, convertUnit(ing.quantity[1], ing.unit[1],
                                                    args.newUnit),
                                    Some(args.newUnit))
            ELSE app' = app

\* C26: handleChangeUnit(sectionId, ingredientId, newUnit) changes the
\* quantity and the unit of the addressed ingredient, to the converted value
\* and newUnit, if its unit is not null, its quantity is not zero and
\* convertUnit is not null, and otherwise leaves the recipe unchanged; in
\* both cases every other ingredient, every other field of the ingredient,
\* the notes, instructions, title and scale are unchanged
C26_ChangeUnitFrame ==
    [][fn' = "handleChangeUnit" =>
          ChangeUnitStep(input', LAMBDA q : q # NULL /\ q[1] # Num(0))]_vars

\* the same with a quantity that is NaN counted as absent, as !ing.quantity
\* counts it
C26_ChangeUnitFrameTruthy ==
    [][fn' = "handleChangeUnit" =>
          ChangeUnitStep(input', LAMBDA q : q # NULL /\ q[1] # Num(0) /\ ~IsNaN(q[1]))]_vars

\* a recipe without the identifiers of its sections and ingredients
WithoutIds(recipe) ==
    [recipe EXCEPT !.sections =
        [k \in 1..Len(recipe.sections) |->
            [id |-> <<>>,
             title |-> recipe.sections[k].title,
             ingredients |->
                 [j \in 1..Len(recipe.sections[k].ingredients) |->
                     [recipe.sections[k].ingredients[j] EXCEPT !.id = <<>>]]]]]

\* the recipe is what parseRecipeText(text) returns: its contents are those
\* of a parse of the text and its identifiers are among the ones generated
\* by this call
IsParseOf(recipe, text) ==
    /\ WithoutIds(recipe) =
           WithoutIds(parseRecipeText(text, [i \in 1..(Len(RecipeLines(text)) + 1) |-> 0], 0))
    /\ \A i \in 1..Len(IdsOf(recipe.sections)) :
          \E k \in (Len(issued) + 1)..Len(issued') : IdsOf(recipe.sections)[i] = issued'[k]

\* C27: handleTextReceived(text): if the text is a single measurement the
\* conversion input becomes the parsed quantity and unit, the conversion
\* mode turns on and the recipe and the scale are left unchanged; otherwise
\* the recipe is replaced by parseRecipeText(text), the scale is reset to 1
\* and the conversion mode turns off; one of the two happens for every text
C27_TextRouting ==
    [][fn' = "handleTextReceived" =>
          IF isSingleMeasurement(input')
          THEN /\ parseSingleMeasurement(input') # NULL
               /\ app'.conversionInput = parseSingleMeasurement(input')[1]
               /\ app'.isConversionMode
               /\ app'.recipe = app.recipe
               /\ app'.scale = app.scale
               /\ issued' = issued
          ELSE /\ IsParseOf(app'.recipe, input')
               /\ app'.scale = Num(1)
               /\ ~app'.isConversionMode
               /\ app'.conversionInput = app.conversionInput]_vars

\* "500ml" has been received by a page that shows a recipe at scale 2: the
\* conversion input is 500 ml and the recipe and the scale are as they were
C27_Witness ==
    /\ fn = "handleTextReceived" /\ input = <<"5", "0", "0", "m", "l">>
    /\ app.conversionInput = [quantity |-> Num(500), unit |-> "ml"]
    /\ app.isConversionMode
    /\ app.scale = Num(2)
    /\ Len(app.recipe.sections) = 1

\* C28: in every state reached through the mount (with or without the
\* convert parameter, with or without a hash that loads) and the handlers
\* handleTextReceived, handleOpenConversionMode, handleCloseConversionMode
\* and handleClearRecipe, isConversionMode and showConversionPreview are
\* never both true; and handleClearRecipe always leaves an empty recipe,
\* scale 1, the conversion mode off and the preview shown
C28_ConversionMode ==
    /\ [](~(app.isConversionMode /\ app.showConversionPreview))
    /\ [][fn' = "handleClearRecipe" =>
             /\ app'.recipe = EmptyRecipe
             /\ app'.scale = Num(1)
             /\ ~app'.isConversionMode
             /\ app'.showConversionPreview]_vars

\* handleOpenConversionMode has run on a page that was opened with a shared
\* recipe at scale 2: the mode is on and the preview hidden
C28_Witness ==
    /\ fn = "handleOpenConversionMode"
    /\ app.isConversionMode /\ ~app.showConversionPreview
    /\ app.scale = Num(2)
    /\ Len(app.recipe.sections) = 1

(***************************************************************************)
(* pages/Index.tsx: the instructions as the text the user edits, and the   *)
(* text parsed back by handleInstructionsChange.                           *)
(***************************************************************************)
MaxSteps == 3        \* number of instruction steps of a recipe

\* recipe.instructions.map((inst, idx) => `${idx + 1}. ${inst}`).join('\n')
instructionsText(instructions) ==
    join([idx \in 1..Len(instructions) |->
             IntToText(idx) \o <<".", " ">> \o instructions[idx]],
         <<"\n">>)

\* const instructions = text ? parseInstructions(text) : []
InstructionsOf(text) == IF text = <<>> THEN <<>> ELSE parseInstructions(text)

\* the steps held: non-empty texts without line breaks
StepPool == {<<"M", "i", "x">>, <<"B", "a", "k", "e", " ", "2", "0", " ", "m", "i", "n", ".">>, <<"2", " ", "e", "g", "g", "s">>, <<"-", " ", "s", "t", "i", "r">>}

InitEdit ==
    /\ pc = "ready"
    /\ fn = "handleInstructionsChange"
    /\ input \in SeqsUpTo(StepPool, MaxSteps)
    /\ output = NULL
    /\ shape = [kind |-> "none"]
    /\ clock = 0 /\ idCounter = 0 /\ issued = <<>> /\ parse = NULL
    /\ app = [InitialApp EXCEPT !.recipe.instructions = input]
    /\ hook = IdleHook

\* the page renders the instructions as the text of the edit field
RenderInstructions ==
    /\ pc = "ready" /\ fn = "handleInstructionsChange"
    /\ output' = instructionsText(app.recipe.instructions)
    /\ pc' = "rendered"
    /\ UNCHANGED <<fn, input, shape, clock, idCounter, issued, parse, app, hook>>

\* lines 255-258: the text of the edit field is handed back unchanged
HandleInstructionsChange ==
    /\ pc = "rendered"
    /\ app' = [app EXCEPT !.recipe.instructions = InstructionsOf(output)]
    /\ pc' = "done"
    /\ UNCHANGED <<fn, input, output, shape, clock, idCounter, issued, parse, hook>>

NextEdit ==
    \/ RenderInstructions
    \/ HandleInstructionsChange

SpecEdit == InitEdit /\ [][NextEdit]_vars

\* C29: rendering the instruction steps of the recipe as the lines "k. step"
\* joined by single newlines and handing that text unchanged to
\* handleInstructionsChange yields the same steps in the same order
C29_EditRoundTrip ==
    Returned("handleInstructionsChange") => app.recipe.instructions = input

\* what holds: a list of at most one step comes back unchanged, and a longer
\* list comes back as one step
C29_OneStepAtMost ==
    Returned("handleInstructionsChange") =>
        IF Len(input) <= 1 THEN app.recipe.instructions = input
        ELSE Len(app.recipe.instructions) = 1

(***************************************************************************)
(* hooks/useLongPress.ts.  setTimeout returns the timers 1, 2, ...; a      *)
(* timer is pending from setTimeout until it expires or clearTimeout is    *)
(* called with it.  Beside isPressed and the two refs, hook holds what an  *)
(* observer of the callbacks sees: whether a press is held (start has run  *)
(* and neither stop nor cancel has run since), whether onLongPress has     *)
(* been called since the last start, and the callback the last step called.*)
(***************************************************************************)
MaxTimers == 4       \* start runs at most MaxTimers times

\* clearTimeout(timerRef.current)
Cleared(h) == IF h.timerRef = NULL THEN h.pending ELSE h.pending \ {h.timerRef[1]}

InitPress ==
    /\ pc = "ready"
    /\ fn = "useLongPress"
    /\ input \in [onClick : BOOLEAN]
    /\ output = NULL
    /\ shape = [kind |-> "none"]
    /\ InitSession

\* lines 14-26: onMouseDown, onTouchStart
Start ==
    /\ fn = "useLongPress"
    /\ hook.timers < MaxTimers
    /\ hook' = [hook EXCEPT !.isLongPressRef = FALSE,
                            !.isPressed = TRUE,
                            !.timerRef = Some(hook.timers + 1),
                            !.pending = @ \cup {hook.timers + 1},
                            !.timers = @ + 1,
                            !.held = TRUE,
                            !.longPressed = FALSE,
                            !.called = "none"]
    /\ UNCHANGED <<fn, input, output, pc, shape, clock, idCounter, issued, parse, app>>

\* lines 28-39: onMouseUp and onTouchEnd (shouldTriggerClick), onMouseLeave
Stop ==
    /\ fn = "useLongPress"
    /\ \E shouldTriggerClick \in BOOLEAN :
          hook' = [hook EXCEPT !.pending = Cleared(hook),
                               !.timerRef = NULL,
                               !.isPressed = FALSE,
                               !.held = FALSE,
                               !.called = IF /\ shouldTriggerClick
                                             /\ ~hook.isLongPressRef
                                             /\ input.onClick
                                          THEN "onClick" ELSE "none"]
    /\ UNCHANGED <<fn, input, output, pc, shape, clock, idCounter, issued, parse, app>>

\* lines 41-47: onTouchCancel
Cancel ==
    /\ fn = "useLongPress"
    /\ hook' = [hook EXCEPT !.pending = Cleared(hook),
                            !.timerRef = NULL,
                            !.isPressed = FALSE,
                            !.held = FALSE,
                            !.called = "none"]
    /\ UNCHANGED <<fn, input, output, pc, shape, clock, idCounter, issued, parse, app>>

\* lines 21-25: the callback of a pending timer
TimerExpiry ==
    /\ fn = "useLongPress"
    /\ \E timer \in hook.pending :
          hook' = [hook EXCEPT !.isLongPressRef = TRUE,
                               !.isPressed = FALSE,
                               !.pending = @ \ {timer},
                               !.longPressed = TRUE,
                               !.called = "onLongPress"]
    /\ UNCHANGED <<fn, input, output, pc, shape, clock, idCounter, issued, parse, app>>

NextPress ==
    \/ Start
    \/ Stop
    \/ Cancel
    \/ TimerExpiry

SpecPress == InitPress /\ [][NextPress]_vars

\* C30: for any interleaving of start, stop, cancel and timer expiry,
\* onLongPress fires only while a press is held (never after stop or cancel
\* has ended every press, also when start ran twice before a stop), it
\* fires at most once per press, and onClick never fires for a press on
\* which onLongPress has fired
C30_LongPressOrdering ==
    [][/\ hook'.called = "onLongPress" => hook.held /\ ~hook.longPressed
       /\ hook'.called = "onClick" => ~hook.longPressed]_vars

\* what holds: the timer that timerRef names fires only while a press is
\* held, and onClick never follows onLongPress within a press
C30_CurrentTimer ==
    [][/\ (/\ hook'.called = "onLongPress"
           /\ hook.timerRef # NULL
           /\ hook.pending \ hook'.pending = {hook.timerRef[1]}) => hook.held
       /\ hook'.called = "onClick" => ~hook.longPressed]_vars

====
